---- MODULE Spec2Model ----
EXTENDS Integers, Sequences, FiniteSets, TLC

(***************************************************************************)
(* Tic-Tac-Toe (pavlodef/tic-tac-toe): the board evaluator of              *)
(* game_logic.py, the decision engine of ai.py and the controller of       *)
(* main.py.                                                                *)
(*                                                                         *)
(* A board is a function [0..2 -> [0..2 -> Cell]] (Python: list of rows).  *)
(* A move is the tuple <<row, col>>; "no move" (Python None) is <<>>.      *)
(* random.random() is drawn from RandomDraws, in hundredths.               *)
(***************************************************************************)

\* ------------------------------------------------------------- constants

BOARD_ROWS == 3
BOARD_COLS == 3
WIDTH == 600

\* Python None as a cell / winner value
None == "None"
\* Python None as a move (Optional[Tuple[int, int]])
NoMove == <<>>
\* Python None as a winning_line
NoLine == <<>>

\* float('inf'): every score is within -10..10
inf == 1000

Symbols == {"X", "O"}
Cell == {None, "X", "O"}
Rows == 0 .. (BOARD_ROWS - 1)
Cols == 0 .. (BOARD_COLS - 1)
Difficulties == {"Easy", "Medium", "Hard", "Impossible"}

\* representatives of random.random() in [0, 1), in hundredths: one value in
\* each interval cut by the thresholds 0.05, 0.15, 0.4 and 0.5 of the code
RandomDraws == {0, 5, 15, 40, 50}

AllBoards == [Rows -> [Cols -> Cell]]
EmptyBoard == [r \in Rows |-> [c \in Cols |-> None]]

\* board with board[r][c] = v
Place(board, r, c, v) == [board EXCEPT ![r][c] = v]

\* the number of cells of b that hold v
Count(b, v) == Cardinality({m \in Rows \X Cols : b[m[1]][m[2]] = v})

\* ------------------------------------------------- game_logic.GameState

\* GameState.player: "X" from __init__ and reset, assigned nowhere else
player == "X"

\* mutant of make_move: the target cell is not tested for emptiness
make_move_overwrites(board, row, col) ==
    IF 0 <= row /\ row < BOARD_ROWS /\ 0 <= col /\ col < BOARD_COLS
    THEN <<TRUE, Place(board, row, col, player)>>
    ELSE <<FALSE, board>>

\* GameState.make_move: <<the value returned, the board after the call>>
make_move(board, row, col) ==
    IF 0 <= row /\ row < BOARD_ROWS /\ 0 <= col /\ col < BOARD_COLS
        /\ board[row][col] = None
    THEN <<TRUE, Place(board, row, col, player)>>
    ELSE <<FALSE, board>>

\* one pass of the loop over the rows, lines 59-63
check_winner_row(board, row) ==
    LET a == board[row][0]
        b == board[row][1]
        c == board[row][2]
        cell_span == WIDTH \div BOARD_COLS
        y == row * cell_span + cell_span \div 2
    IN IF a # None /\ a = b /\ b = c
       THEN <<a, <<20, y, WIDTH - 20, y>> >>
       ELSE <<None, NoLine>>

\* rows scanned top to bottom
RECURSIVE check_winner_rows(_, _)
check_winner_rows(board, row) ==
    IF row >= BOARD_ROWS THEN <<None, NoLine>>
    ELSE LET hit == check_winner_row(board, row)
         IN IF hit[1] # None THEN hit
            ELSE check_winner_rows(board, row + 1)

\* one pass of the loop over the columns, lines 66-70
check_winner_col(board, col) ==
    LET a == board[0][col]
        cell_span == WIDTH \div BOARD_COLS
        x == col * cell_span + cell_span \div 2
    IN IF a # None /\ a = board[1][col] /\ board[1][col] = board[2][col]
       THEN <<a, <<x, 20, x, cell_span * BOARD_ROWS - 20>> >>
       ELSE <<None, NoLine>>

\* columns scanned left to right
RECURSIVE check_winner_cols(_, _)
check_winner_cols(board, col) ==
    IF col >= BOARD_COLS THEN <<None, NoLine>>
    ELSE LET hit == check_winner_col(board, col)
         IN IF hit[1] # None THEN hit
            ELSE check_winner_cols(board, col + 1)

\* mutant of check_winner_diags: the anti-diagonal test reads cell (2, 2)
\* where the code reads (2, 0)
check_winner_diags_wrong_cell(board) ==
    LET center == board[1][1]
        cell_span == WIDTH \div BOARD_COLS
    IN IF center # None
       THEN IF board[0][0] = center /\ center = board[2][2]
            THEN <<center, <<20, 20, WIDTH - 20, cell_span * BOARD_ROWS - 20>> >>
            ELSE IF board[0][2] = center /\ center = board[2][2]
            THEN <<center, <<WIDTH - 20, 20, 20, cell_span * BOARD_ROWS - 20>> >>
            ELSE <<None, NoLine>>
       ELSE <<None, NoLine>>

\* the two diagonals, guarded by the center cell
check_winner_diags(board) ==
    LET center == board[1][1]
        cell_span == WIDTH \div BOARD_COLS
    IN IF center # None
       THEN IF board[0][0] = center /\ center = board[2][2]
            THEN <<center, <<20, 20, WIDTH - 20, cell_span * BOARD_ROWS - 20>> >>
            ELSE IF board[0][2] = center /\ center = board[2][0]
            THEN <<center, <<WIDTH - 20, 20, 20, cell_span * BOARD_ROWS - 20>> >>
            ELSE <<None, NoLine>>
       ELSE <<None, NoLine>>

\* GameState.check_winner: <<returned symbol, winning_line it stores>>;
\* a NoLine second component means winning_line is left as it was
check_winner_full(board) ==
    LET byRow == check_winner_rows(board, 0)
        byCol == check_winner_cols(board, 0)
    IN IF byRow[1] # None THEN byRow
       ELSE IF byCol[1] # None THEN byCol
       ELSE check_winner_diags(board)

\* The scan of check_winner as the interpreter runs it next to other threads.
\* A thread switch can fall at the entry of the function and at the end of
\* each pass of its two loops, so that the scan is a sequence of parts, each
\* reading the board as it is when the part runs: part k < BOARD_ROWS is the
\* pass over row k, the next BOARD_COLS parts are the passes over the
\* columns, and the last part is the two diagonals. The value is what the
\* part finds, <<None, NoLine>> when it finds no line.
check_winner_part(board, k) ==
    IF k < BOARD_ROWS THEN check_winner_row(board, k)
    ELSE IF k < BOARD_ROWS + BOARD_COLS
    THEN check_winner_col(board, k - BOARD_ROWS)
    ELSE check_winner_diags(board)

\* the last part of the scan: the function returns after it whatever it found
check_winner_last == BOARD_ROWS + BOARD_COLS

\* GameState.check_winner: the returned symbol
check_winner(board) == check_winner_full(board)[1]

\* GameState.is_board_full
is_board_full(board) == \A r \in Rows : \A c \in Cols : board[r][c] # None

\* [(r, c) for r in range(BOARD_ROWS) for c in range(BOARD_COLS)]
RowMajor == [i \in 1 .. (BOARD_ROWS * BOARD_COLS) |->
                <<(i - 1) \div BOARD_COLS, (i - 1) % BOARD_COLS>>]

\* mutant of get_empty_cells: the comprehension nests its loops the other way
\* round (for c ... for r ...)
get_empty_cells_column_major(board) ==
    SelectSeq([i \in 1 .. (BOARD_ROWS * BOARD_COLS) |->
                  <<(i - 1) % BOARD_ROWS, (i - 1) \div BOARD_ROWS>>],
              LAMBDA m : board[m[1]][m[2]] = None)

\* GameState.get_empty_cells
get_empty_cells(board) ==
    SelectSeq(RowMajor, LAMBDA m : board[m[1]][m[2]] = None)

\* ------------------------------------------------------- ai.AIPlayer

\* mutant of _get_max_depth: Hard searches as deep as Medium
_get_max_depth_hard_as_medium(difficulty) ==
    CASE difficulty = "Easy" -> 1
      [] difficulty = "Medium" -> 3
      [] difficulty = "Hard" -> 3
      [] difficulty = "Impossible" -> 9
      [] OTHER -> 9

\* AIPlayer._get_max_depth
_get_max_depth(difficulty) ==
    CASE difficulty = "Easy" -> 1
      [] difficulty = "Medium" -> 3
      [] difficulty = "Hard" -> 6
      [] difficulty = "Impossible" -> 9
      [] OTHER -> 9

\* mutant of _get_mistake_probability: Impossible makes mistakes like Hard
_get_mistake_probability_impossible_errs(difficulty) ==
    CASE difficulty = "Easy" -> 40
      [] difficulty = "Medium" -> 15
      [] difficulty = "Hard" -> 5
      [] difficulty = "Impossible" -> 5
      [] OTHER -> 0

\* AIPlayer._get_mistake_probability, in hundredths
_get_mistake_probability(difficulty) ==
    CASE difficulty = "Easy" -> 40
      [] difficulty = "Medium" -> 15
      [] difficulty = "Hard" -> 5
      [] difficulty = "Impossible" -> 0
      [] OTHER -> 0

\* AIPlayer.__init__: the engine object (self)
AIPlayer(difficulty) ==
    [difficulty |-> difficulty,
     max_depth |-> _get_max_depth(difficulty),
     mistake_probability |-> _get_mistake_probability(difficulty)]

\* mutant of _check_winner: the anti-diagonal is not tested
_check_winner_no_anti_diagonal(board) ==
    IF board[0][0] = board[0][1] /\ board[0][1] = board[0][2] /\ board[0][0] # None
    THEN board[0][0]
    ELSE IF board[1][0] = board[1][1] /\ board[1][1] = board[1][2] /\ board[1][0] # None
    THEN board[1][0]
    ELSE IF board[2][0] = board[2][1] /\ board[2][1] = board[2][2] /\ board[2][0] # None
    THEN board[2][0]
    ELSE IF board[0][0] = board[1][0] /\ board[1][0] = board[2][0] /\ board[0][0] # None
    THEN board[0][0]
    ELSE IF board[0][1] = board[1][1] /\ board[1][1] = board[2][1] /\ board[0][1] # None
    THEN board[0][1]
    ELSE IF board[0][2] = board[1][2] /\ board[1][2] = board[2][2] /\ board[0][2] # None
    THEN board[0][2]
    ELSE IF board[0][0] = board[1][1] /\ board[1][1] = board[2][2] /\ board[0][0] # None
    THEN board[0][0]
    ELSE None

\* AIPlayer._check_winner: the loops over range(BOARD_ROWS) and
\* range(BOARD_COLS) written out row by row and column by column, in the
\* order the code scans them
_check_winner(board) ==
    IF board[0][0] = board[0][1] /\ board[0][1] = board[0][2] /\ board[0][0] # None
    THEN board[0][0]
    ELSE IF board[1][0] = board[1][1] /\ board[1][1] = board[1][2] /\ board[1][0] # None
    THEN board[1][0]
    ELSE IF board[2][0] = board[2][1] /\ board[2][1] = board[2][2] /\ board[2][0] # None
    THEN board[2][0]
    ELSE IF board[0][0] = board[1][0] /\ board[1][0] = board[2][0] /\ board[0][0] # None
    THEN board[0][0]
    ELSE IF board[0][1] = board[1][1] /\ board[1][1] = board[2][1] /\ board[0][1] # None
    THEN board[0][1]
    ELSE IF board[0][2] = board[1][2] /\ board[1][2] = board[2][2] /\ board[0][2] # None
    THEN board[0][2]
    ELSE IF board[0][0] = board[1][1] /\ board[1][1] = board[2][2] /\ board[0][0] # None
    THEN board[0][0]
    ELSE IF board[0][2] = board[1][1] /\ board[1][1] = board[2][0] /\ board[0][2] # None
    THEN board[0][2]
    ELSE None

\* AIPlayer._is_board_full
_is_board_full(board) == \A r \in Rows : \A c \in Cols : board[r][c] # None

\* AIPlayer._get_empty_cells
_get_empty_cells(board) ==
    SelectSeq(RowMajor, LAMBDA m : board[m[1]][m[2]] = None)

Max(a, b) == IF a >= b THEN a ELSE b
Min(a, b) == IF a <= b THEN a ELSE b

\* AIPlayer._minimax with its two loops; prune = TRUE is the code
\* ('if beta <= alpha: break'), prune = FALSE is the same search with the
\* cutoff removed
RECURSIVE minimax_search(_, _, _, _, _, _, _)
RECURSIVE minimax_max_loop(_, _, _, _, _, _, _, _, _)
RECURSIVE minimax_min_loop(_, _, _, _, _, _, _, _, _)

minimax_max_loop(self, board, depth, empty_cells, i, max_score, alpha, beta, prune) ==
    IF i > Len(empty_cells) THEN max_score
    ELSE LET row == empty_cells[i][1]
             col == empty_cells[i][2]
             temp_board == Place(board, row, col, "O")
             score == minimax_search(self, temp_board, depth + 1, FALSE, alpha, beta, prune)
             max_score2 == Max(score, max_score)
             alpha2 == Max(alpha, score)
         IN IF prune /\ beta <= alpha2
            THEN max_score2
            ELSE minimax_max_loop(self, board, depth, empty_cells, i + 1,
                                  max_score2, alpha2, beta, prune)

\* mutant of minimax_min_loop: the cutoff test is inverted (beta >= alpha)
minimax_min_loop_inverted_cutoff(self, board, depth, empty_cells, i, min_score, alpha, beta, prune) ==
    IF i > Len(empty_cells) THEN min_score
    ELSE LET row == empty_cells[i][1]
             col == empty_cells[i][2]
             temp_board == Place(board, row, col, "X")
             score == minimax_search(self, temp_board, depth + 1, TRUE, alpha, beta, prune)
             min_score2 == Min(score, min_score)
             beta2 == Min(beta, score)
         IN IF prune /\ beta2 >= alpha
            THEN min_score2
            ELSE minimax_min_loop(self, board, depth, empty_cells, i + 1,
                                  min_score2, alpha, beta2, prune)

minimax_min_loop(self, board, depth, empty_cells, i, min_score, alpha, beta, prune) ==
    IF i > Len(empty_cells) THEN min_score
    ELSE LET row == empty_cells[i][1]
             col == empty_cells[i][2]
             temp_board == Place(board, row, col, "X")
             score == minimax_search(self, temp_board, depth + 1, TRUE, alpha, beta, prune)
             min_score2 == Min(score, min_score)
             beta2 == Min(beta, score)
         IN IF prune /\ beta2 <= alpha
            THEN min_score2
            ELSE minimax_min_loop(self, board, depth, empty_cells, i + 1,
                                  min_score2, alpha, beta2, prune)

\* mutant of minimax_search: a line scores 10 or -10 at any depth
minimax_search_flat_scores(self, board, depth, is_maximizing, alpha, beta, prune) ==
    LET winner == _check_winner(board)
    IN IF winner = "O" THEN 10
       ELSE IF winner = "X" THEN 0 - 10
       ELSE IF _is_board_full(board) THEN 0
       ELSE IF depth >= self.max_depth THEN 0
       ELSE IF is_maximizing
            THEN minimax_max_loop(self, board, depth, _get_empty_cells(board), 1,
                                  -inf, alpha, beta, prune)
            ELSE minimax_min_loop(self, board, depth, _get_empty_cells(board), 1,
                                  inf, alpha, beta, prune)

\* mutant of minimax_search: a line of X is not scored as a loss
minimax_search_ignores_x_line(self, board, depth, is_maximizing, alpha, beta, prune) ==
    LET winner == _check_winner(board)
    IN IF winner = "O" THEN 10 - depth
       ELSE IF winner = "X" THEN 0
       ELSE IF _is_board_full(board) THEN 0
       ELSE IF depth >= self.max_depth THEN 0
       ELSE IF is_maximizing
            THEN minimax_max_loop(self, board, depth, _get_empty_cells(board), 1,
                                  -inf, alpha, beta, prune)
            ELSE minimax_min_loop(self, board, depth, _get_empty_cells(board), 1,
                                  inf, alpha, beta, prune)

\* mutant of minimax_search: a line of X is scored like a line of O
minimax_search_x_line_as_win(self, board, depth, is_maximizing, alpha, beta, prune) ==
    LET winner == _check_winner(board)
    IN IF winner = "O" THEN 10 - depth
       ELSE IF winner = "X" THEN 10 - depth
       ELSE IF _is_board_full(board) THEN 0
       ELSE IF depth >= self.max_depth THEN 0
       ELSE IF is_maximizing
            THEN minimax_max_loop(self, board, depth, _get_empty_cells(board), 1,
                                  -inf, alpha, beta, prune)
            ELSE minimax_min_loop(self, board, depth, _get_empty_cells(board), 1,
                                  inf, alpha, beta, prune)

minimax_search(self, board, depth, is_maximizing, alpha, beta, prune) ==
    LET winner == _check_winner(board)
    IN IF winner = "O" THEN 10 - depth
       ELSE IF winner = "X" THEN depth - 10
       ELSE IF _is_board_full(board) THEN 0
       ELSE IF depth >= self.max_depth THEN 0
       ELSE IF is_maximizing
            THEN minimax_max_loop(self, board, depth, _get_empty_cells(board), 1,
                                  -inf, alpha, beta, prune)
            ELSE minimax_min_loop(self, board, depth, _get_empty_cells(board), 1,
                                  inf, alpha, beta, prune)

\* AIPlayer._minimax
_minimax(self, board, depth, is_maximizing, alpha, beta) ==
    minimax_search(self, board, depth, is_maximizing, alpha, beta, TRUE)

\* AIPlayer._minimax once more, returning with the score the largest value
\* of `depth` among the calls made below (and including) this one:
\* <<score, deepest>>
RECURSIVE minimax_probe(_, _, _, _, _, _)
RECURSIVE probe_max_loop(_, _, _, _, _, _, _, _, _)
RECURSIVE probe_min_loop(_, _, _, _, _, _, _, _, _)

probe_max_loop(self, board, depth, empty_cells, i, max_score, alpha, beta, deepest) ==
    IF i > Len(empty_cells) THEN <<max_score, deepest>>
    ELSE LET row == empty_cells[i][1]
             col == empty_cells[i][2]
             temp_board == Place(board, row, col, "O")
             sub == minimax_probe(self, temp_board, depth + 1, FALSE, alpha, beta)
             max_score2 == Max(sub[1], max_score)
             alpha2 == Max(alpha, sub[1])
             deepest2 == Max(deepest, sub[2])
         IN IF beta <= alpha2
            THEN <<max_score2, deepest2>>
            ELSE probe_max_loop(self, board, depth, empty_cells, i + 1,
                                max_score2, alpha2, beta, deepest2)

probe_min_loop(self, board, depth, empty_cells, i, min_score, alpha, beta, deepest) ==
    IF i > Len(empty_cells) THEN <<min_score, deepest>>
    ELSE LET row == empty_cells[i][1]
             col == empty_cells[i][2]
             temp_board == Place(board, row, col, "X")
             sub == minimax_probe(self, temp_board, depth + 1, TRUE, alpha, beta)
             min_score2 == Min(sub[1], min_score)
             beta2 == Min(beta, sub[1])
             deepest2 == Max(deepest, sub[2])
         IN IF beta2 <= alpha
            THEN <<min_score2, deepest2>>
            ELSE probe_min_loop(self, board, depth, empty_cells, i + 1,
                                min_score2, alpha, beta2, deepest2)

\* mutant of minimax_probe: the depth limit is tested before the winner
minimax_probe_depth_limit_first(self, board, depth, is_maximizing, alpha, beta) ==
    LET winner == _check_winner(board)
    IN IF depth >= self.max_depth THEN <<0, depth>>
       ELSE IF winner = "O" THEN <<10 - depth, depth>>
       ELSE IF winner = "X" THEN <<depth - 10, depth>>
       ELSE IF _is_board_full(board) THEN <<0, depth>>
       ELSE IF is_maximizing
            THEN probe_max_loop(self, board, depth, _get_empty_cells(board), 1,
                                -inf, alpha, beta, depth)
            ELSE probe_min_loop(self, board, depth, _get_empty_cells(board), 1,
                                inf, alpha, beta, depth)

\* mutant of minimax_probe: the test 'depth >= self.max_depth' is missing
minimax_probe_no_depth_limit(self, board, depth, is_maximizing, alpha, beta) ==
    LET winner == _check_winner(board)
    IN IF winner = "O" THEN <<10 - depth, depth>>
       ELSE IF winner = "X" THEN <<depth - 10, depth>>
       ELSE IF _is_board_full(board) THEN <<0, depth>>
       ELSE IF is_maximizing
            THEN probe_max_loop(self, board, depth, _get_empty_cells(board), 1,
                                -inf, alpha, beta, depth)
            ELSE probe_min_loop(self, board, depth, _get_empty_cells(board), 1,
                                inf, alpha, beta, depth)

minimax_probe(self, board, depth, is_maximizing, alpha, beta) ==
    LET winner == _check_winner(board)
    IN IF winner = "O" THEN <<10 - depth, depth>>
       ELSE IF winner = "X" THEN <<depth - 10, depth>>
       ELSE IF _is_board_full(board) THEN <<0, depth>>
       ELSE IF depth >= self.max_depth THEN <<0, depth>>
       ELSE IF is_maximizing
            THEN probe_max_loop(self, board, depth, _get_empty_cells(board), 1,
                                -inf, alpha, beta, depth)
            ELSE probe_min_loop(self, board, depth, _get_empty_cells(board), 1,
                                inf, alpha, beta, depth)

\* mutant of candidate_score: the position after O's move is searched as if
\* O were to move again
candidate_score_o_moves_again(self, board, row, col) ==
    _minimax(self, Place(board, row, col, "O"), 0, TRUE, -inf, inf)

\* the score _get_best_move computes for the candidate (row, col)
candidate_score(self, board, row, col) ==
    _minimax(self, Place(board, row, col, "O"), 0, FALSE, -inf, inf)

\* the loop of AIPlayer._get_best_move: <<best_score, best_move>>
RECURSIVE best_move_loop(_, _, _, _, _, _)

\* mutant of best_move_loop: a cell of equal score replaces the best move
\* (score >= best_score)
best_move_loop_keeps_last(self, board, empty_cells, i, best_score, best_move) ==
    IF i > Len(empty_cells) THEN <<best_score, best_move>>
    ELSE LET row == empty_cells[i][1]
             col == empty_cells[i][2]
             score == candidate_score(self, board, row, col)
         IN IF score >= best_score
            THEN best_move_loop(self, board, empty_cells, i + 1, score, <<row, col>>)
            ELSE best_move_loop(self, board, empty_cells, i + 1, best_score, best_move)

best_move_loop(self, board, empty_cells, i, best_score, best_move) ==
    IF i > Len(empty_cells) THEN <<best_score, best_move>>
    ELSE LET row == empty_cells[i][1]
             col == empty_cells[i][2]
             score == candidate_score(self, board, row, col)
         IN IF score > best_score
            THEN best_move_loop(self, board, empty_cells, i + 1, score, <<row, col>>)
            ELSE best_move_loop(self, board, empty_cells, i + 1, best_score, best_move)

\* mutant of _get_best_move: the loop misses the first empty cell
_get_best_move_skips_first(self, board) ==
    best_move_loop(self, board, _get_empty_cells(board), 2, -inf, NoMove)[2]

\* AIPlayer._get_best_move
_get_best_move(self, board) ==
    best_move_loop(self, board, _get_empty_cells(board), 1, -inf, NoMove)[2]


\* AIPlayer._get_random_move: the cells random.choice may return
\* ({NoMove} when there is no empty cell)
_get_random_move(board) ==
    LET empty_cells == get_empty_cells(board)
    IN IF Len(empty_cells) > 0
       THEN {empty_cells[i] : i \in 1 .. Len(empty_cells)}
       ELSE {NoMove}

\* mutant of _get_strategic_move: the corners are not filtered for emptiness
_get_strategic_move_any_corner(board) ==
    IF board[1][1] = None THEN {<<1, 1>>}
    ELSE {<<0, 0>>, <<0, 2>>, <<2, 0>>, <<2, 2>>}

\* mutant of _get_strategic_move: the corners are not preferred to the edges
_get_strategic_move_no_corner_preference(board) ==
    IF board[1][1] = None THEN {<<1, 1>>}
    ELSE LET empty_cells == get_empty_cells(board)
         IN IF Len(empty_cells) > 0
            THEN {empty_cells[i] : i \in 1 .. Len(empty_cells)}
            ELSE {NoMove}

\* AIPlayer._get_strategic_move: the cells it may return
_get_strategic_move(board) ==
    IF board[1][1] = None THEN {<<1, 1>>}
    ELSE LET corners == <<<<0, 0>>, <<0, 2>>, <<2, 0>>, <<2, 2>>>>
             empty_corners == SelectSeq(corners, LAMBDA m : board[m[1]][m[2]] = None)
             empty_cells == get_empty_cells(board)
         IN IF Len(empty_corners) > 0
            THEN {empty_corners[i] : i \in 1 .. Len(empty_corners)}
            ELSE IF Len(empty_cells) > 0
            THEN {empty_cells[i] : i \in 1 .. Len(empty_cells)}
            ELSE {NoMove}

\* ------------------------------------------------- game_logic.Statistics

\* Statistics.__init__
NewStatistics ==
    [player_wins |-> 0, ai_wins |-> 0, draws |-> 0, total_games |-> 0,
     win_streak |-> 0, best_streak |-> 0]

\* Statistics.record_win
record_win(stats, w) ==
    LET counted == [stats EXCEPT !.total_games = @ + 1]
    IN IF w = "X"
       THEN LET streak == counted.win_streak + 1
            IN [counted EXCEPT !.player_wins = @ + 1,
                               !.win_streak = streak,
                               !.best_streak = IF streak > @ THEN streak ELSE @]
       ELSE IF w = "O"
       THEN [counted EXCEPT !.ai_wins = @ + 1, !.win_streak = 0]
       ELSE [counted EXCEPT !.draws = @ + 1]

\* ------------------------------------------------------------ the state

\* the number of AI move threads that can exist at the same time
MaxThreads == 2
Threads == 1 .. MaxThreads

\* the number of restart and menu events the application handles
MaxRestarts == 1

\* the number of clicks on a cell the application handles in one round, from
\* one reset of the board to the next
MaxClicks == 3

\* the number of events pygame.event.get returns for one frame
MaxBatch == 2

\* the number of AI move threads the application starts
MaxStarts == 3

\* the number of rounds recorded by direct calls of Statistics.record_win
MaxGames == 6

VARIABLES
    in_menu,        \* Game.in_menu
    difficulty,     \* Game.difficulty, the tier of Game.ai_player
    ai_thinking,    \* Game.ai_thinking
    board,          \* Game.game_state.board
    game_over,      \* Game.game_state.game_over
    winner,         \* Game.game_state.winner
    winning_line,   \* Game.game_state.winning_line
    statistics,     \* Game.statistics
    main,           \* the main thread: where it is in Game.run
    th,             \* the AI move threads alive, oldest first: where each is
    origin,         \* history: the board of the initial state
    restarts,       \* history: the number of restart and menu events handled
    recorded,       \* history: the record_win calls since the last reset
    clicks,         \* history: the clicks that placed a mark since the last reset
    starts          \* history: the AI move threads started

game_vars == <<board, game_over, winner, winning_line>>
ctl_vars == <<in_menu, difficulty, ai_thinking, statistics, main>>
vars == <<in_menu, difficulty, ai_thinking, board, game_over, winner,
          winning_line, statistics, main, th, origin, restarts, recorded,
          clicks, starts>>
hist_vars == <<origin, restarts, recorded, clicks, starts>>

\* a thread slot with no thread in it. pc is the place in the code; entry the
\* function the thread (or a direct caller) entered; fn the scan in progress,
\* (r, c) its cell and hit the outcome of its winner check; mistake whether
\* get_move took its random branch; move and result the value returned;
\* k the part of check_winner that the call of ai_move_thread runs next,
\* found what that call returned and the line it found; arg the winner it has read for its call of record_win; depth
\* and is_maximizing the arguments of a direct call of _minimax
IdleThread ==
    [pc |-> "idle", difficulty |-> None, entry |-> None, fn |-> None,
     r |-> 0, c |-> 0, hit |-> FALSE, mistake |-> FALSE, move |-> NoMove,
     k |-> 0, found |-> <<None, NoLine>>, arg |-> None, result |-> None,
     depth |-> 0, is_maximizing |-> FALSE]

\* a thread (or a direct caller) about to execute `entry` of an AIPlayer of
\* the given tier
CallRecord(entry, tier) ==
    [IdleThread EXCEPT
        !.pc = CASE entry \in {"get_move", "AIPlayer.make_move"} -> "get_move"
                 [] entry = "_get_best_move" -> "best"
                 [] entry = "_check_winner" -> "check_winner"
                 [] entry = "_make_random_move" -> "random"
                 [] entry \in {"_get_strategic_move", "_make_strategic_move"}
                       -> "strategic"
                 [] entry \in {"_try_win_move", "_try_block_move",
                               "_try_win", "_try_block"} -> "test"
                 [] OTHER -> entry,
        !.difficulty = tier,
        !.entry = entry,
        !.fn = CASE entry \in {"_try_win_move", "_try_win"} -> "_try_win_move"
                 [] entry \in {"_try_block_move", "_try_block"} -> "_try_block_move"
                 [] OTHER -> None]

\* mutant of ScanSymbol: _try_block_move places "O" like _try_win_move
ScanSymbol_always_o(fn) == "O"

\* the symbol _try_win_move / _try_block_move places
ScanSymbol(fn) == IF fn = "_try_win_move" THEN "O" ELSE "X"

\* where control goes when the scan th.fn returns `result`
ScanReturn(thr, result) ==
    LET back == [thr EXCEPT !.r = 0, !.c = 0, !.hit = FALSE]
    IN IF thr.entry \in {"_try_win_move", "_try_block_move",
                         "_try_win", "_try_block"} \/ result # NoMove
       THEN [back EXCEPT !.pc = "returned", !.move = result]
       ELSE IF thr.fn = "_try_win_move"
       THEN IF thr.difficulty = "Easy"
            THEN [back EXCEPT !.pc = "easy_choice", !.fn = None]
            ELSE [back EXCEPT !.pc = "test", !.fn = "_try_block_move"]
       ELSE [back EXCEPT !.pc = "strategic", !.fn = None]

\* mutant of ScanAdvance: the loops are nested the other way round
\* (for c ... for r ...)
ScanAdvance_column_major(thr) ==
    IF thr.r + 1 < BOARD_ROWS
    THEN [thr EXCEPT !.pc = "test", !.r = @ + 1, !.hit = FALSE]
    ELSE IF thr.c + 1 < BOARD_COLS
    THEN [thr EXCEPT !.pc = "test", !.c = @ + 1, !.r = 0, !.hit = FALSE]
    ELSE ScanReturn(thr, NoMove)

\* the scan moves on to the next cell in 'for r ... for c ...', or ends
ScanAdvance(thr) ==
    IF thr.c + 1 < BOARD_COLS
    THEN [thr EXCEPT !.pc = "test", !.c = @ + 1, !.hit = FALSE]
    ELSE IF thr.r + 1 < BOARD_ROWS
    THEN [thr EXCEPT !.pc = "test", !.r = @ + 1, !.c = 0, !.hit = FALSE]
    ELSE ScanReturn(thr, NoMove)

\* ------------------------------------------- AIPlayer.get_move, by steps

\* get_move, lines 42-65: the mistake draw and the dispatch on the tier. A
\* thread of Game (pc "start") makes the call as the first statement of
\* ai_move_thread, main.py line 71, on the engine that is Game.ai_player, the
\* engine of tier Game.difficulty, at that moment; a direct caller (pc
\* "get_move") makes it on the engine of its own tier.
get_move(t, draw) ==
    /\ th[t].pc \in {"start", "get_move"}
    /\ LET tier == IF th[t].pc = "start" THEN difficulty ELSE th[t].difficulty
           self == AIPlayer(tier)
       IN th' = [th EXCEPT ![t] =
              IF draw < self.mistake_probability
              THEN [@ EXCEPT !.pc = "random", !.difficulty = tier,
                             !.mistake = TRUE]
              ELSE IF self.difficulty \in {"Easy", "Medium"}
              THEN [@ EXCEPT !.pc = "test", !.difficulty = tier,
                             !.fn = "_try_win_move"]
              ELSE [@ EXCEPT !.pc = "best", !.difficulty = tier]]
    /\ UNCHANGED <<game_vars, ctl_vars, hist_vars>>

\* return self._get_random_move(game_state)
random_move(t, m) ==
    /\ th[t].pc = "random"
    /\ m \in _get_random_move(board)
    /\ th' = [th EXCEPT ![t] = [@ EXCEPT !.pc = "returned", !.move = m]]
    /\ UNCHANGED <<game_vars, ctl_vars, hist_vars>>

\* Easy, line 51: if random.random() < 0.5
easy_choice(t, draw) ==
    /\ th[t].pc = "easy_choice"
    /\ th' = [th EXCEPT ![t] =
           [@ EXCEPT !.pc = IF draw < 50 THEN "random" ELSE "strategic"]]
    /\ UNCHANGED <<game_vars, ctl_vars, hist_vars>>

\* return self._get_strategic_move(game_state)
strategic_move(t, m) ==
    /\ th[t].pc = "strategic"
    /\ m \in _get_strategic_move(board)
    /\ th' = [th EXCEPT ![t] = [@ EXCEPT !.pc = "returned", !.move = m]]
    /\ UNCHANGED <<game_vars, ctl_vars, hist_vars>>

\* move = self._get_best_move(game_state)
best_move(t) ==
    /\ th[t].pc = "best"
    /\ th' = [th EXCEPT ![t] =
           [@ EXCEPT !.pc = "returned",
                     !.move = _get_best_move(AIPlayer(th[t].difficulty), board)]]
    /\ UNCHANGED <<game_vars, ctl_vars, hist_vars>>

\* _try_win_move / _try_block_move: if game_state.board[r][c] is None
scan_test(t) ==
    /\ th[t].pc = "test"
    /\ th' = [th EXCEPT ![t] =
           IF board[th[t].r][th[t].c] = None
           THEN [@ EXCEPT !.pc = "write"]
           ELSE ScanAdvance(@)]
    /\ UNCHANGED <<game_vars, ctl_vars, hist_vars>>

\* game_state.board[r][c] = "O" (or "X"): written to the caller's board
scan_write(t) ==
    /\ th[t].pc = "write"
    /\ board' = Place(board, th[t].r, th[t].c, ScanSymbol(th[t].fn))
    /\ th' = [th EXCEPT ![t] = [@ EXCEPT !.pc = "check"]]
    /\ UNCHANGED <<game_over, winner, winning_line, ctl_vars, hist_vars>>

\* if self._check_winner(game_state.board) == "O" (or "X")
scan_check(t) ==
    /\ th[t].pc = "check"
    /\ th' = [th EXCEPT ![t] =
           [@ EXCEPT !.pc = "undo",
                     !.hit = (_check_winner(board) = ScanSymbol(th[t].fn))]]
    /\ UNCHANGED <<game_vars, ctl_vars, hist_vars>>

\* mutant of scan_undo: the mark is left on the board when the scan returns
\* the cell
scan_undo_keeps_hit(t) ==
    /\ th[t].pc = "undo"
    /\ board' = IF th[t].hit THEN board
                ELSE Place(board, th[t].r, th[t].c, None)
    /\ th' = [th EXCEPT ![t] =
           IF th[t].hit
           THEN ScanReturn(@, <<th[t].r, th[t].c>>)
           ELSE ScanAdvance(@)]
    /\ UNCHANGED <<game_over, winner, winning_line, ctl_vars, hist_vars>>

\* game_state.board[r][c] = None, then return (r, c) or go on scanning
scan_undo(t) ==
    /\ th[t].pc = "undo"
    /\ board' = Place(board, th[t].r, th[t].c, None)
    /\ th' = [th EXCEPT ![t] =
           IF th[t].hit
           THEN ScanReturn(@, <<th[t].r, th[t].c>>)
           ELSE ScanAdvance(@)]
    /\ UNCHANGED <<game_over, winner, winning_line, ctl_vars, hist_vars>>

\* a direct call of AIPlayer._check_winner on the board
ai_check_winner(t) ==
    /\ th[t].pc = "check_winner"
    /\ th' = [th EXCEPT ![t] =
           [@ EXCEPT !.pc = "returned", !.result = _check_winner(board)]]
    /\ UNCHANGED <<game_vars, ctl_vars, hist_vars>>

\* a direct call of GameState.is_board_full on the board
call_is_board_full(t) ==
    /\ th[t].pc = "is_board_full"
    /\ th' = [th EXCEPT ![t] =
           [@ EXCEPT !.pc = "returned", !.result = is_board_full(board)]]
    /\ UNCHANGED <<game_vars, ctl_vars, hist_vars>>

\* a direct call of GameState.get_empty_cells on the board
call_get_empty_cells(t) ==
    /\ th[t].pc = "get_empty_cells"
    /\ th' = [th EXCEPT ![t] =
           [@ EXCEPT !.pc = "returned", !.result = get_empty_cells(board)]]
    /\ UNCHANGED <<game_vars, ctl_vars, hist_vars>>

\* a direct call of AIPlayer._is_board_full on the board
call__is_board_full(t) ==
    /\ th[t].pc = "_is_board_full"
    /\ th' = [th EXCEPT ![t] =
           [@ EXCEPT !.pc = "returned", !.result = _is_board_full(board)]]
    /\ UNCHANGED <<game_vars, ctl_vars, hist_vars>>

\* a direct call of AIPlayer._get_empty_cells on the board
call__get_empty_cells(t) ==
    /\ th[t].pc = "_get_empty_cells"
    /\ th' = [th EXCEPT ![t] =
           [@ EXCEPT !.pc = "returned", !.result = _get_empty_cells(board)]]
    /\ UNCHANGED <<game_vars, ctl_vars, hist_vars>>

\* a direct call of GameState.make_move(th[t].r, th[t].c)
call_make_move(t) ==
    /\ th[t].pc = "make_move"
    /\ LET done == make_move(board, th[t].r, th[t].c)
       IN /\ board' = done[2]
          /\ th' = [th EXCEPT ![t] =
                 [@ EXCEPT !.pc = "returned", !.result = done[1]]]
    /\ UNCHANGED <<game_over, winner, winning_line, ctl_vars, hist_vars>>

\* a direct call of AIPlayer._minimax(game_state, depth, is_maximizing,
\* float('-inf'), float('inf')) on the board
call__minimax(t) ==
    /\ th[t].pc = "_minimax"
    /\ LET probe == minimax_probe(AIPlayer(th[t].difficulty), board, th[t].depth,
                                  th[t].is_maximizing, -inf, inf)
       IN th' = [th EXCEPT ![t] =
              [@ EXCEPT !.pc = "returned",
                        !.result = [score |-> probe[1], deepest |-> probe[2]]]]
    /\ UNCHANGED <<game_vars, ctl_vars, hist_vars>>

\* ------------------------------------------------------- main.Game

\* the main thread at the place pc of Game.run, with nothing found by a
\* check_winner call of its own. left counts the events that the for loop of
\* Game.run, line 144, still has to hand to handle_game_event in a frame
\* whose earlier event has set in_menu: the frame after it shows the menu.
\* In a frame that leaves in_menu False the count is of no consequence (the
\* next frame goes on with the events) and is not kept.
IdleMain(pc) ==
    [pc |-> pc, cell |-> NoMove, k |-> 0, found |-> <<None, NoLine>>,
     arg |-> None, left |-> 0]

\* the main thread when handle_game_event returns, in_menu being `menu` and
\* `left` events of the frame remaining
NextEvent(menu, left) ==
    IF menu /\ left = 0
    THEN IdleMain("menu")
    ELSE [IdleMain("events") EXCEPT !.left = IF menu THEN left ELSE 0]

\* self.game_state.winner = self.game_state.check_winner()
store_winner ==
    /\ LET found == check_winner_full(board)
       IN /\ winner' = found[1]
          /\ winning_line' = IF found[2] # NoLine THEN found[2] ELSE winning_line
    /\ UNCHANGED <<board, game_over, ctl_vars, th, hist_vars>>

\* the thread slot a new thread takes
FreeSlot(t) ==
    /\ th[t].pc = "idle"
    /\ \A u \in Threads : u < t => th[u].pc # "idle"

\* a thread that threading.Thread.start has started and that has not yet
\* executed the first statement of ai_move_thread
NewThread == [IdleThread EXCEPT !.pc = "start", !.entry = "get_move"]

\* the threads alive, oldest first, in the first slots
Compact(slots) ==
    LET live == SelectSeq([t \in Threads |-> slots[t]],
                          LAMBDA thr : thr.pc # "idle")
    IN [t \in Threads |-> IF t <= Len(live) THEN live[t] ELSE IdleThread]

\* Game.make_ai_move, lines 67-68 and 83-85
make_ai_move ==
    IF ~ai_thinking /\ ~game_over
    THEN /\ ai_thinking' = TRUE
         /\ \E t \in Threads :
               /\ FreeSlot(t)
               /\ th' = [th EXCEPT ![t] = NewThread]
         /\ starts' = starts + 1
    ELSE UNCHANGED <<ai_thinking, th, starts>>

\* Game.select_difficulty, lines 47-55 and 61: the frame of Game.run found
\* in_menu True, and the click is on the button of tier `diff`; `draw` is the
\* random.random() of line 55. The statement reached is pygame.time.wait of
\* line 58 when the AI is to move first, the event loop of the next frame of
\* Game.run otherwise.
select_difficulty(diff, draw) ==
    /\ main.pc = "menu"
    /\ in_menu
    /\ difficulty' = diff
    /\ in_menu' = FALSE
    /\ main' = IF diff \in {"Hard", "Impossible"} /\ draw < 50
               THEN IdleMain("wait")
               ELSE IdleMain("events")
    /\ UNCHANGED <<game_vars, ai_thinking, statistics, th, hist_vars>>

\* Game.select_difficulty, lines 58-61: the wait of 100 ms is over
select_make_ai_move ==
    /\ main.pc = "wait"
    /\ make_ai_move
    /\ main' = IdleMain("events")
    /\ UNCHANGED <<game_vars, in_menu, difficulty, statistics, origin,
                   restarts, recorded, clicks>>

\* Game.run, lines 141-142: the remaining events of the frame are none that
\* handle_game_event acts on, and the next frame finds in_menu True
next_frame ==
    /\ main.pc = "events"
    /\ in_menu
    /\ main' = IdleMain("menu")
    /\ UNCHANGED <<game_vars, in_menu, difficulty, ai_thinking, statistics,
                   th, hist_vars>>

\* Game.handle_game_event, lines 122-125, and GameState.make_move, line 44:
\* a click on the cell (row, col) of the board, which make_move finds empty
click_cell(row, col) ==
    /\ main.pc = "events"
    /\ in_menu => main.left > 0
    /\ ~game_over /\ ~ai_thinking
    /\ make_move(board, row, col)[1]
    /\ main' = [IdleMain("50") EXCEPT
                   !.cell = <<row, col>>,
                   !.left = IF in_menu THEN main.left - 1 ELSE 0]
    /\ UNCHANGED <<game_vars, in_menu, difficulty, ai_thinking, statistics,
                   th, hist_vars>>

\* GameState.make_move, line 50: the X goes onto the cell that line 44 found
\* empty, whatever a thread has put there since
click_place ==
    /\ main.pc = "50"
    /\ board' = Place(board, main.cell[1], main.cell[2], player)
    /\ main' = [main EXCEPT !.pc = "128", !.cell = NoMove]
    /\ clicks' = clicks + 1
    /\ UNCHANGED <<game_over, winner, winning_line, in_menu, difficulty,
                   ai_thinking, statistics, th, origin, restarts, recorded,
                   starts>>

\* line 128, the call: one part of the scan of check_winner. The scan ends
\* with the part that finds a line, or with its last part.
click_check ==
    /\ main.pc = "128"
    /\ LET hit == check_winner_part(board, main.k)
       IN main' = IF hit[1] # None \/ main.k = check_winner_last
                  THEN [main EXCEPT !.pc = "128w", !.k = 0, !.found = hit]
                  ELSE [main EXCEPT !.k = main.k + 1]
    /\ UNCHANGED <<game_vars, in_menu, difficulty, ai_thinking, statistics,
                   th, hist_vars>>

\* line 128, the end of check_winner: self.winning_line = [...] when a line
\* was found, and the return
click_line ==
    /\ main.pc = "128w"
    /\ winning_line' = IF main.found[2] # NoLine THEN main.found[2]
                       ELSE winning_line
    /\ main' = [main EXCEPT !.pc = "128s"]
    /\ UNCHANGED <<board, game_over, winner, in_menu, difficulty, ai_thinking,
                   statistics, th, hist_vars>>

\* line 128, the assignment: self.game_state.winner = the value returned
click_winner ==
    /\ main.pc = "128s"
    /\ winner' = main.found[1]
    /\ main' = [main EXCEPT !.pc = "129", !.found = IdleMain("129").found]
    /\ UNCHANGED <<board, game_over, winning_line, in_menu, difficulty,
                   ai_thinking, statistics, th, hist_vars>>

\* line 129: if self.game_state.winner or self.game_state.is_board_full()
click_test ==
    /\ main.pc = "129"
    /\ main' = [main EXCEPT
                   !.pc = IF winner # None \/ is_board_full(board)
                          THEN "130" ELSE "133"]
    /\ UNCHANGED <<game_vars, in_menu, difficulty, ai_thinking, statistics,
                   th, hist_vars>>

\* line 130: self.game_state.game_over = True
click_over ==
    /\ main.pc = "130"
    /\ game_over' = TRUE
    /\ main' = [main EXCEPT !.pc = "131"]
    /\ UNCHANGED <<board, winner, winning_line, in_menu, difficulty,
                   ai_thinking, statistics, th, hist_vars>>

\* line 131, the argument: self.game_state.winner is read, and
\* Statistics.record_win is entered with it
click_record_arg ==
    /\ main.pc = "131"
    /\ main' = [main EXCEPT !.pc = "131c", !.arg = winner]
    /\ UNCHANGED <<game_vars, in_menu, difficulty, ai_thinking, statistics,
                   th, hist_vars>>

\* line 131, the call: Statistics.record_win counts the winner it was given
click_record ==
    /\ main.pc = "131c"
    /\ statistics' = record_win(statistics, main.arg)
    /\ recorded' = recorded + 1
    /\ main' = NextEvent(in_menu, main.left)
    /\ UNCHANGED <<game_vars, in_menu, difficulty, ai_thinking, th, origin,
                   restarts, clicks, starts>>

\* mutant of click_make_ai_move: the handler returns without the call of
\* make_ai_move
click_make_ai_move_returns ==
    /\ main.pc = "133"
    /\ main' = NextEvent(in_menu, main.left)
    /\ UNCHANGED <<game_vars, in_menu, difficulty, ai_thinking, statistics,
                   th, hist_vars>>

\* line 133: self.make_ai_move()
click_make_ai_move ==
    /\ main.pc = "133"
    /\ make_ai_move
    /\ main' = NextEvent(in_menu, main.left)
    /\ UNCHANGED <<game_vars, in_menu, difficulty, statistics, origin,
                   restarts, recorded, clicks>>

\* Game.handle_game_event, lines 122-133: the click on a cell, statement by
\* statement
click_rest ==
    \/ click_place
    \/ click_check
    \/ click_line
    \/ click_winner
    \/ click_test
    \/ click_over
    \/ click_record_arg
    \/ click_record
    \/ click_make_ai_move

\* Game.handle_game_event, lines 122-133: a click on any cell
handle_click ==
    \/ \E row \in Rows, col \in Cols : click_cell(row, col)
    \/ click_rest

\* lines 73-74: get_move has returned; the move goes onto the board that is
\* game_state.board at that moment, and is not read again
ai_move_thread_place(t) ==
    /\ th[t].pc = "returned"
    /\ th[t].entry = "get_move"
    /\ IF th[t].move # NoMove
       THEN /\ board' = Place(board, th[t].move[1], th[t].move[2], "O")
            /\ th' = [th EXCEPT ![t] = [@ EXCEPT !.pc = "76", !.move = NoMove]]
       ELSE /\ board' = board
            /\ th' = [th EXCEPT ![t] = [@ EXCEPT !.pc = "81"]]
    /\ UNCHANGED <<game_over, winner, winning_line, ctl_vars, hist_vars>>

\* line 76, the call: one part of the scan of check_winner. The scan ends
\* with the part that finds a line, which it has still to store, or with its
\* last part: check_winner then returns None and executes nothing more.
ai_move_thread_check(t) ==
    /\ th[t].pc = "76"
    /\ LET hit == check_winner_part(board, th[t].k)
       IN th' = [th EXCEPT ![t] =
              IF hit[1] # None
              THEN [@ EXCEPT !.pc = "76w", !.k = 0, !.found = hit]
              ELSE IF th[t].k = check_winner_last
              THEN [@ EXCEPT !.pc = "76s", !.k = 0, !.found = hit]
              ELSE [@ EXCEPT !.k = th[t].k + 1]]
    /\ UNCHANGED <<game_vars, ctl_vars, hist_vars>>

\* line 76, the end of check_winner: self.winning_line = [...] when a line
\* was found, and the return
ai_move_thread_line(t) ==
    /\ th[t].pc = "76w"
    /\ winning_line' = IF th[t].found[2] # NoLine THEN th[t].found[2]
                       ELSE winning_line
    /\ th' = [th EXCEPT ![t] = [@ EXCEPT !.pc = "76s"]]
    /\ UNCHANGED <<board, game_over, winner, ctl_vars, hist_vars>>

\* line 76, the assignment: self.game_state.winner = the value returned
ai_move_thread_winner(t) ==
    /\ th[t].pc = "76s"
    /\ winner' = th[t].found[1]
    /\ th' = [th EXCEPT ![t] =
           [@ EXCEPT !.pc = "77", !.found = IdleThread.found]]
    /\ UNCHANGED <<board, game_over, winning_line, ctl_vars, hist_vars>>

\* line 77: if self.game_state.winner or self.game_state.is_board_full()
ai_move_thread_test(t) ==
    /\ th[t].pc = "77"
    /\ th' = [th EXCEPT ![t] =
           [@ EXCEPT !.pc = IF winner # None \/ is_board_full(board)
                            THEN "78" ELSE "81"]]
    /\ UNCHANGED <<game_vars, ctl_vars, hist_vars>>

\* line 78: self.game_state.game_over = True
ai_move_thread_over(t) ==
    /\ th[t].pc = "78"
    /\ game_over' = TRUE
    /\ th' = [th EXCEPT ![t] = [@ EXCEPT !.pc = "79"]]
    /\ UNCHANGED <<board, winner, winning_line, ctl_vars, hist_vars>>

\* line 79, the argument: self.game_state.winner is read, and
\* Statistics.record_win is entered with it
ai_move_thread_record_arg(t) ==
    /\ th[t].pc = "79"
    /\ th' = [th EXCEPT ![t] = [@ EXCEPT !.pc = "79c", !.arg = winner]]
    /\ UNCHANGED <<game_vars, ctl_vars, hist_vars>>

\* line 79, the call: Statistics.record_win counts the winner it was given
ai_move_thread_record(t) ==
    /\ th[t].pc = "79c"
    /\ statistics' = record_win(statistics, th[t].arg)
    /\ recorded' = recorded + 1
    /\ th' = [th EXCEPT ![t] = [@ EXCEPT !.pc = "81", !.arg = None]]
    /\ UNCHANGED <<game_vars, in_menu, difficulty, ai_thinking, main, origin,
                   restarts, clicks, starts>>

\* line 81: self.ai_thinking = False, and the thread ends
ai_move_thread_end(t) ==
    /\ th[t].pc = "81"
    /\ ai_thinking' = FALSE
    /\ th' = Compact([th EXCEPT ![t] = IdleThread])
    /\ UNCHANGED <<game_vars, in_menu, difficulty, statistics, main, hist_vars>>

\* Game.make_ai_move.ai_move_thread, lines 73-81, statement by statement
\* (line 71, the get_move call, is the steps of AIPlayer.get_move)
ai_move_thread(t) ==
    \/ ai_move_thread_place(t)
    \/ ai_move_thread_check(t)
    \/ ai_move_thread_line(t)
    \/ ai_move_thread_winner(t)
    \/ ai_move_thread_test(t)
    \/ ai_move_thread_over(t)
    \/ ai_move_thread_record_arg(t)
    \/ ai_move_thread_record(t)
    \/ ai_move_thread_end(t)

\* GameState.reset, line 30: the board is replaced by a new, empty one. The
\* statements of reset and of the handlers that call it are steps of their
\* own, with the steps of the AI move threads between them.
reset_board ==
    /\ main.pc = "30"
    /\ board' = EmptyBoard
    /\ restarts' = restarts + 1
    /\ recorded' = 0
    /\ clicks' = 0
    /\ main' = [main EXCEPT !.pc = "32"]
    /\ UNCHANGED <<game_over, winner, winning_line, in_menu, difficulty,
                   ai_thinking, statistics, th, origin, starts>>

\* GameState.reset, line 32
reset_over ==
    /\ main.pc = "32"
    /\ game_over' = FALSE
    /\ main' = [main EXCEPT !.pc = "33"]
    /\ UNCHANGED <<board, winner, winning_line, in_menu, difficulty,
                   ai_thinking, statistics, th, hist_vars>>

\* GameState.reset, line 33
reset_winner ==
    /\ main.pc = "33"
    /\ winner' = None
    /\ main' = [main EXCEPT !.pc = "34"]
    /\ UNCHANGED <<board, game_over, winning_line, in_menu, difficulty,
                   ai_thinking, statistics, th, hist_vars>>

\* GameState.reset, line 34, and the return to the handler
reset_line ==
    /\ main.pc = "34"
    /\ winning_line' = NoLine
    /\ main' = [main EXCEPT !.pc = "99"]
    /\ UNCHANGED <<board, game_over, winner, in_menu, difficulty,
                   ai_thinking, statistics, th, hist_vars>>

\* GameState.reset
reset ==
    \/ reset_board
    \/ reset_over
    \/ reset_winner
    \/ reset_line

\* Game.handle_game_event, lines 99-100, 105-106, 112-113 and 119-120: the
\* handler clears ai_thinking after the reset and returns
clear_ai_thinking ==
    /\ main.pc = "99"
    /\ ai_thinking' = FALSE
    /\ main' = NextEvent(in_menu, main.left)
    /\ UNCHANGED <<game_vars, in_menu, difficulty, statistics, th, hist_vars>>

\* Game.handle_game_event, lines 96-97 and 109-110: the R key or a click on
\* the Restart button; GameState.reset is entered
restart_event ==
    /\ main.pc = "events"
    /\ in_menu => main.left > 0
    /\ restarts < MaxRestarts
    /\ main' = [IdleMain("30") EXCEPT
                   !.left = IF in_menu THEN main.left - 1 ELSE 0]
    /\ UNCHANGED <<game_vars, in_menu, difficulty, ai_thinking, statistics,
                   th, hist_vars>>

\* Game.handle_game_event, lines 101-103 and 115-117: the M or ESC key or a
\* click on the Menu button, with `more` events after it in the events of
\* its frame; in_menu is set and GameState.reset is entered
menu_event(more) ==
    /\ main.pc = "events"
    /\ in_menu => main.left > 0
    /\ restarts < MaxRestarts
    /\ in_menu' = TRUE
    /\ main' = [IdleMain("30") EXCEPT
                   !.left = IF in_menu THEN main.left - 1 ELSE more]
    /\ UNCHANGED <<game_vars, difficulty, ai_thinking, statistics, th,
                   hist_vars>>

\* Game.select_difficulty, lines 44-45, and Game.handle_game_event, lines
\* 92-93, with Game.run, lines 139-155: the QUIT event. The handler returns
\* False, the loop of Game.run ends, and sys.exit() ends the process and
\* with it the AI move threads, which are daemon threads (line 84). What a
\* thread does between the return of the handler and the end of the process
\* it can as well do before the event is handled, the main thread changing
\* nothing in between.
quit_event ==
    /\ \/ main.pc = "menu"
       \/ main.pc = "events" /\ (in_menu => main.left > 0)
    /\ main' = IdleMain("exit")
    /\ th' = [t \in Threads |-> IdleThread]
    /\ UNCHANGED <<game_vars, in_menu, difficulty, ai_thinking, statistics,
                   hist_vars>>

\* a direct call of Statistics.reset
statistics_reset ==
    /\ statistics' = NewStatistics
    /\ UNCHANGED <<game_vars, in_menu, difficulty, ai_thinking, main, th,
                   hist_vars>>

\* a direct call of Statistics.record_win(w)
call_record_win(w) ==
    /\ statistics.total_games < MaxGames
    /\ statistics' = record_win(statistics, w)
    /\ UNCHANGED <<game_vars, in_menu, difficulty, ai_thinking, main, th,
                   hist_vars>>

\* AIPlayer.make_move, lines 72-73: its get_move call has returned; the move
\* goes onto the board, and nothing else of the game state is touched
ai_make_move(t) ==
    /\ th[t].pc = "returned"
    /\ th[t].entry = "AIPlayer.make_move"
    /\ board' = IF th[t].move # NoMove
                THEN Place(board, th[t].move[1], th[t].move[2], "O")
                ELSE board
    /\ th' = [th EXCEPT ![t] = [@ EXCEPT !.pc = "done"]]
    /\ UNCHANGED <<game_over, winner, winning_line, ctl_vars, hist_vars>>

\* AIPlayer._make_random_move, lines 77-78: its _get_random_move call has
\* returned
_make_random_move(t) ==
    /\ th[t].pc = "returned"
    /\ th[t].entry = "_make_random_move"
    /\ board' = IF th[t].move # NoMove
                THEN Place(board, th[t].move[1], th[t].move[2], "O")
                ELSE board
    /\ th' = [th EXCEPT ![t] = [@ EXCEPT !.pc = "done"]]
    /\ UNCHANGED <<game_over, winner, winning_line, ctl_vars, hist_vars>>

\* AIPlayer._make_strategic_move, lines 219-220: its _get_strategic_move call
\* has returned
_make_strategic_move(t) ==
    /\ th[t].pc = "returned"
    /\ th[t].entry = "_make_strategic_move"
    /\ board' = IF th[t].move # NoMove
                THEN Place(board, th[t].move[1], th[t].move[2], "O")
                ELSE board
    /\ th' = [th EXCEPT ![t] = [@ EXCEPT !.pc = "done"]]
    /\ UNCHANGED <<game_over, winner, winning_line, ctl_vars, hist_vars>>

\* AIPlayer._try_win, lines 183-186: its _try_win_move call has returned; it
\* places the O and returns True, or returns False
_try_win(t) ==
    /\ th[t].pc = "returned"
    /\ th[t].entry = "_try_win"
    /\ board' = IF th[t].move # NoMove
                THEN Place(board, th[t].move[1], th[t].move[2], "O")
                ELSE board
    /\ th' = [th EXCEPT ![t] =
           [@ EXCEPT !.pc = "done", !.result = (th[t].move # NoMove)]]
    /\ UNCHANGED <<game_over, winner, winning_line, ctl_vars, hist_vars>>

\* AIPlayer._try_block, lines 201-204: its _try_block_move call has returned;
\* it places the O and returns True, or returns False
_try_block(t) ==
    /\ th[t].pc = "returned"
    /\ th[t].entry = "_try_block"
    /\ board' = IF th[t].move # NoMove
                THEN Place(board, th[t].move[1], th[t].move[2], "O")
                ELSE board
    /\ th' = [th EXCEPT ![t] =
           [@ EXCEPT !.pc = "done", !.result = (th[t].move # NoMove)]]
    /\ UNCHANGED <<game_over, winner, winning_line, ctl_vars, hist_vars>>

\* ------------------------------------------------------ specifications

\* Game.__init__
GameInit ==
    /\ in_menu = TRUE
    /\ main = IdleMain("menu")
    /\ difficulty = None
    /\ ai_thinking = FALSE
    /\ board = EmptyBoard
    /\ game_over = FALSE
    /\ winner = None
    /\ winning_line = NoLine
    /\ statistics = NewStatistics
    /\ th = [t \in Threads |-> IdleThread]
    /\ origin = EmptyBoard
    /\ restarts = 0
    /\ recorded = 0
    /\ clicks = 0
    /\ starts = 0

\* One round against the minimax tiers, from the menu to the end of the
\* round or to the QUIT event, with no restart or menu event.
Init == GameInit

Next ==
    \/ \E diff \in {"Hard", "Impossible"}, draw \in RandomDraws :
          select_difficulty(diff, draw)
    \/ select_make_ai_move
    \/ handle_click
    \/ quit_event
    \/ \E t \in Threads, draw \in RandomDraws : get_move(t, draw)
    \/ \E t \in Threads, m \in Rows \X Cols \union {NoMove} : random_move(t, m)
    \/ \E t \in Threads : best_move(t)
    \/ \E t \in Threads : ai_move_thread(t)

Spec == Init /\ [][Next]_vars

\* The engine takes over in the middle of a round: any position legal
\* alternating play can reach (no completed line, not full, O to move), with
\* the AI move thread about to call get_move of the Impossible tier.
MidGameBoards ==
    {b \in AllBoards :
        /\ _check_winner(b) = None
        /\ ~is_board_full(b)
        /\ Count(b, "X") - Count(b, "O") \in {0, 1}}

MidGameInit ==
    /\ in_menu = FALSE
    /\ main = IdleMain("events")
    /\ difficulty = "Impossible"
    /\ ai_thinking = TRUE
    /\ board \in MidGameBoards
    /\ game_over = FALSE
    /\ winner = None
    /\ winning_line = NoLine
    /\ statistics = NewStatistics
    /\ th = [t \in Threads |->
               IF t = 1 THEN CallRecord("get_move", difficulty) ELSE IdleThread]
    /\ origin = board
    /\ restarts = 0
    /\ recorded = 0
    /\ clicks = 0
    /\ starts = 0

MidGameNext ==
    \/ handle_click
    \/ \E t \in Threads, draw \in RandomDraws : get_move(t, draw)
    \/ \E t \in Threads : best_move(t)
    \/ \E t \in Threads : ai_move_thread(t)

SpecMidGame == MidGameInit /\ [][MidGameNext]_vars

\* The search on its own: _get_best_move of an engine of any tier, called on
\* any position legal alternating play can reach with O to move.
SearchInit ==
    /\ in_menu = FALSE
    /\ main = IdleMain("events")
    /\ difficulty \in Difficulties
    /\ ai_thinking = FALSE
    /\ board \in MidGameBoards
    /\ game_over = FALSE
    /\ winner = None
    /\ winning_line = NoLine
    /\ statistics = NewStatistics
    /\ th = [t \in Threads |->
               IF t = 1 THEN CallRecord("_get_best_move", difficulty)
               ELSE IdleThread]
    /\ origin = board
    /\ restarts = 0
    /\ recorded = 0
    /\ clicks = 0
    /\ starts = 0

SearchNext == \E t \in Threads : best_move(t)

SpecSearch == SearchInit /\ [][SearchNext]_vars

\* The engine on its own: one call of get_move (any tier), of _try_win_move
\* or of _try_block_move, with no other thread running, on any board the two
\* players can have filled in turns (X or O first), finished rounds and full
\* boards included.
EngineBoards ==
    {b \in AllBoards : Count(b, "X") - Count(b, "O") \in {-1, 0, 1}}

EngineInit ==
    /\ in_menu = FALSE
    /\ main = IdleMain("events")
    /\ difficulty \in Difficulties
    /\ ai_thinking = TRUE
    /\ board \in EngineBoards
    /\ game_over = FALSE
    /\ winner = None
    /\ winning_line = NoLine
    /\ statistics = NewStatistics
       \* the two scans do not read the tier: they are entered under one tier
    /\ \E entry \in {"get_move", "_try_win_move", "_try_block_move"} :
          /\ entry = "get_move" \/ difficulty = "Medium"
          /\ th = [t \in Threads |->
                     IF t = 1 THEN CallRecord(entry, difficulty) ELSE IdleThread]
    /\ origin = board
    /\ restarts = 0
    /\ recorded = 0
    /\ clicks = 0
    /\ starts = 0

EngineNext ==
    \/ \E t \in Threads, draw \in RandomDraws : get_move(t, draw)
    \/ \E t \in Threads, m \in Rows \X Cols \union {NoMove} : random_move(t, m)
    \/ \E t \in Threads, draw \in RandomDraws : easy_choice(t, draw)
    \/ \E t \in Threads, m \in Rows \X Cols \union {NoMove} : strategic_move(t, m)
    \/ \E t \in Threads : best_move(t)
    \/ \E t \in Threads : scan_test(t)
    \/ \E t \in Threads : scan_write(t)
    \/ \E t \in Threads : scan_check(t)
    \/ \E t \in Threads : scan_undo(t)

SpecEngine == EngineInit /\ [][EngineNext]_vars

\* The board evaluator on its own: both winner checks called on every
\* 3x3 board over {None, "X", "O"}.
EvalInit ==
    /\ in_menu = FALSE
    /\ main = IdleMain("events")
    /\ difficulty = "Impossible"
    /\ ai_thinking = FALSE
    /\ board \in AllBoards
    /\ game_over = FALSE
    /\ winner = None
    /\ winning_line = NoLine
    /\ statistics = NewStatistics
    /\ th = [t \in Threads |->
               IF t = 1 THEN CallRecord("_check_winner", difficulty)
               ELSE IdleThread]
    /\ origin = board
    /\ restarts = 0
    /\ recorded = 0
    /\ clicks = 0
    /\ starts = 0

EvalNext ==
    \/ \E t \in Threads : ai_check_winner(t)
    \/ store_winner

SpecEval == EvalInit /\ [][EvalNext]_vars

\* The application: the menu, the player's clicks, the restart, menu and
\* QUIT events and the AI move threads, interleaved statement by statement (the
\* code takes no lock), at the tier Hard with the engine taking its mistake
\* branch: _get_random_move can return every cell _get_best_move could, so
\* no board of a round against a search tier is lost. A run handles at most
\* MaxRestarts restart and menu events and at most MaxClicks clicks on a cell
\* in each round, and starts at most MaxStarts threads, of which MaxThreads
\* are alive at a time; after a menu event up to MaxBatch - 1 further events
\* of the same frame reach handle_game_event. Every run of the code within
\* these bounds is a behaviour: a click on a cell or a choice in the menu is
\* taken in whatever the number of threads started, and a call of
\* make_ai_move that starts no thread (line 67: ai_thinking or game_over)
\* always has its step. The one step left out is the call of make_ai_move
\* that would start a thread after MaxStarts of them, the first step of a
\* run that leaves the bounds. Where a step takes an input, AppNext states
\* the place in the code the step starts from, and for a click the test
\* of line 122, in front of the quantifier, so that the inputs are enumerated
\* in the states that can take the step only.
AppTiers == {"Hard"}

\* the draws of random.random() that are below the tier's mistake probability
MistakeDraws(tier) ==
    {draw \in RandomDraws : draw < _get_mistake_probability(tier)}

AppInit == GameInit

AppNext ==
    \/ main.pc = "menu" /\ \E diff \in AppTiers, draw \in RandomDraws :
          select_difficulty(diff, draw)
    \/ (starts < MaxStarts \/ ai_thinking \/ game_over) /\ select_make_ai_move
    \/ clicks < MaxClicks /\ main.pc = "events" /\ ~game_over /\ ~ai_thinking
          /\ \E row \in Rows, col \in Cols : click_cell(row, col)
    \/ click_place
    \/ click_check
    \/ click_line
    \/ click_winner
    \/ click_test
    \/ click_over
    \/ click_record_arg
    \/ click_record
    \/ (starts < MaxStarts \/ ai_thinking \/ game_over) /\ click_make_ai_move
    \/ restart_event
    \/ restarts < MaxRestarts /\ \E more \in 0 .. MaxBatch - 1 : menu_event(more)
    \/ quit_event
    \/ reset
    \/ clear_ai_thinking
    \/ next_frame
    \/ \E t \in Threads :
          th[t].pc = "start"
          /\ \E draw \in MistakeDraws(difficulty) : get_move(t, draw)
    \/ \E t \in Threads :
          th[t].pc = "random"
          /\ \E m \in Rows \X Cols \union {NoMove} : random_move(t, m)
    \/ \E t \in Threads : ai_move_thread(t)

SpecApp == AppInit /\ [][AppNext]_vars

\* GameState.make_move on its own: called with every row and column from
\* one below to one above the board's range, on any board the two players
\* can have filled in turns.
MoveArgs == (0 - 1) .. BOARD_ROWS

MoveInit ==
    /\ in_menu = FALSE
    /\ main = IdleMain("events")
    /\ difficulty = "Impossible"
    /\ ai_thinking = FALSE
    /\ board \in EngineBoards
    /\ game_over = FALSE
    /\ winner = None
    /\ winning_line = NoLine
    /\ statistics = NewStatistics
    /\ \E row \in MoveArgs, col \in MoveArgs :
          th = [t \in Threads |->
                  IF t = 1
                  THEN [CallRecord("make_move", difficulty) EXCEPT !.r = row, !.c = col]
                  ELSE IdleThread]
    /\ origin = board
    /\ restarts = 0
    /\ recorded = 0
    /\ clicks = 0
    /\ starts = 0

MoveNext == \E t \in Threads : call_make_move(t)

SpecMove == MoveInit /\ [][MoveNext]_vars

\* The search on any board: _minimax called as _get_best_move calls it
\* (alpha = -inf, beta = inf), at depth 0 and at the depth limit of the tier,
\* for either side to move, on any board the two players can have filled in
\* turns.
MinimaxInit ==
    /\ in_menu = FALSE
    /\ main = IdleMain("events")
    /\ difficulty \in Difficulties
    /\ ai_thinking = FALSE
    /\ board \in EngineBoards
    /\ game_over = FALSE
    /\ winner = None
    /\ winning_line = NoLine
    /\ statistics = NewStatistics
    /\ \E depth \in {0, _get_max_depth(difficulty)}, is_maximizing \in BOOLEAN :
          th = [t \in Threads |->
                  IF t = 1
                  THEN [CallRecord("_minimax", difficulty) EXCEPT
                           !.depth = depth, !.is_maximizing = is_maximizing]
                  ELSE IdleThread]
    /\ origin = board
    /\ restarts = 0
    /\ recorded = 0
    /\ clicks = 0
    /\ starts = 0

MinimaxNext == \E t \in Threads : call__minimax(t)

SpecMinimax == MinimaxInit /\ [][MinimaxNext]_vars

\* _get_best_move on any board: an engine of any tier, called on any board
\* with O to move by the counts of the marks, finished rounds and full boards
\* included.
BestMoveBoards ==
    {b \in AllBoards : Count(b, "X") - Count(b, "O") \in {0, 1}}

BestMoveInit ==
    /\ in_menu = FALSE
    /\ main = IdleMain("events")
    /\ difficulty \in Difficulties
    /\ ai_thinking = FALSE
    /\ board \in BestMoveBoards
    /\ game_over = FALSE
    /\ winner = None
    /\ winning_line = NoLine
    /\ statistics = NewStatistics
    /\ th = [t \in Threads |->
               IF t = 1 THEN CallRecord("_get_best_move", difficulty)
               ELSE IdleThread]
    /\ origin = board
    /\ restarts = 0
    /\ recorded = 0
    /\ clicks = 0
    /\ starts = 0

BestMoveNext == \E t \in Threads : best_move(t)

SpecBestMove == BestMoveInit /\ [][BestMoveNext]_vars

\* The board queries on their own: the fullness test and the empty-cell
\* enumeration of GameState and of AIPlayer, called on every 3x3 board over
\* {None, "X", "O"}.
CellsInit ==
    /\ in_menu = FALSE
    /\ main = IdleMain("events")
    /\ difficulty = "Impossible"
    /\ ai_thinking = FALSE
    /\ board \in AllBoards
    /\ game_over = FALSE
    /\ winner = None
    /\ winning_line = NoLine
    /\ statistics = NewStatistics
    /\ \E entry \in {"is_board_full", "get_empty_cells",
                      "_is_board_full", "_get_empty_cells"} :
          th = [t \in Threads |->
                  IF t = 1 THEN CallRecord(entry, difficulty) ELSE IdleThread]
    /\ origin = board
    /\ restarts = 0
    /\ recorded = 0
    /\ clicks = 0
    /\ starts = 0

CellsNext ==
    \/ \E t \in Threads : call_is_board_full(t)
    \/ \E t \in Threads : call_get_empty_cells(t)
    \/ \E t \in Threads : call__is_board_full(t)
    \/ \E t \in Threads : call__get_empty_cells(t)

SpecCells == CellsInit /\ [][CellsNext]_vars

\* The positional heuristic on its own: _get_strategic_move called on every
\* 3x3 board over {None, "X", "O"}.
StrategicInit ==
    /\ in_menu = FALSE
    /\ main = IdleMain("events")
    /\ difficulty = "Medium"
    /\ ai_thinking = FALSE
    /\ board \in AllBoards
    /\ game_over = FALSE
    /\ winner = None
    /\ winning_line = NoLine
    /\ statistics = NewStatistics
    /\ th = [t \in Threads |->
               IF t = 1 THEN CallRecord("_get_strategic_move", difficulty)
               ELSE IdleThread]
    /\ origin = board
    /\ restarts = 0
    /\ recorded = 0
    /\ clicks = 0
    /\ starts = 0

StrategicNext ==
    \E t \in Threads, m \in Rows \X Cols \union {NoMove} : strategic_move(t, m)

SpecStrategic == StrategicInit /\ [][StrategicNext]_vars

\* Two calls of get_move on one board: two threads enter get_move of engines
\* of the same search tier on any position legal alternating play can reach
\* with O to move, and run in any order, each with its own random draws. The
\* Impossible tier is entered on every such position; the Hard tier, whose
\* two calls can return different cells, on those of the second half of a
\* round.
PairTiers == {"Hard", "Impossible"}

PairBoards(tier) ==
    IF tier = "Impossible" THEN MidGameBoards
    ELSE {b \in MidGameBoards : 2 * Count(b, None) < BOARD_ROWS * BOARD_COLS}

PairInit ==
    /\ in_menu = FALSE
    /\ main = IdleMain("events")
    /\ difficulty \in PairTiers
    /\ ai_thinking = TRUE
    /\ board \in PairBoards(difficulty)
    /\ game_over = FALSE
    /\ winner = None
    /\ winning_line = NoLine
    /\ statistics = NewStatistics
    /\ th = [t \in Threads |->
               IF t <= 2 THEN CallRecord("get_move", difficulty) ELSE IdleThread]
    /\ origin = board
    /\ restarts = 0
    /\ recorded = 0
    /\ clicks = 0
    /\ starts = 0

PairNext ==
    \/ \E t \in Threads, draw \in RandomDraws : get_move(t, draw)
    \/ \E t \in Threads, m \in Rows \X Cols \union {NoMove} : random_move(t, m)
    \/ \E t \in Threads : best_move(t)

SpecPair == PairInit /\ [][PairNext]_vars

\* One step of the AI move thread t outside the search: a step of its
\* get_move call or, once that has returned, the rest of ai_move_thread.
ThreadStep(t) ==
    \/ \E draw \in RandomDraws : get_move(t, draw)
    \/ \E m \in Rows \X Cols \union {NoMove} : random_move(t, m)
    \/ \E draw \in RandomDraws : easy_choice(t, draw)
    \/ \E m \in Rows \X Cols \union {NoMove} : strategic_move(t, m)
    \/ scan_test(t)
    \/ scan_write(t)
    \/ scan_check(t)
    \/ scan_undo(t)
    \/ ai_move_thread(t)

\* WF_vars(\E t \in Threads : best_move(t)) with its enabling condition
\* written out: a step of best_move is possible exactly when a thread is at
\* the call of _get_best_move, and the call returns (the search is bounded)
SearchReturns ==
    \/ []<>(\A t \in Threads : th[t].pc # "best")
    \/ []<><<\E t \in Threads : best_move(t)>>_vars

\* One round at any tier, from the menu to the end of the round or to the
\* QUIT event, with no restart or menu event. The interpreter keeps
\* scheduling the threads of a running process. The main thread inside
\* select_difficulty or the handler of a click waits for nothing but the
\* pygame.time.wait of line 58, which ends; a started AI move thread waits
\* for nothing but a sleep that ends: each takes its next step sooner or
\* later. The events are the user's, and none of them has to come.
RoundNext ==
    \/ \E diff \in Difficulties, draw \in RandomDraws :
          select_difficulty(diff, draw)
    \/ select_make_ai_move
    \/ handle_click
    \/ quit_event
    \/ \E t \in Threads : ThreadStep(t)
    \/ \E t \in Threads : best_move(t)

SpecRound ==
    /\ GameInit
    /\ [][RoundNext]_vars
    /\ WF_vars(select_make_ai_move)
    /\ WF_vars(click_rest)
    /\ WF_vars(\E t \in Threads : ThreadStep(t))
    /\ SearchReturns

\* One round against the Hard tier playing the move of _get_best_move every
\* time: from the menu, with either side moving first, to the end of the
\* round or to the QUIT event, every random.random() of get_move being at
\* or above the mistake probability, and with no restart or menu event.
HardInit == GameInit

HardNext ==
    \/ \E draw \in RandomDraws : select_difficulty("Hard", draw)
    \/ select_make_ai_move
    \/ handle_click
    \/ quit_event
    \/ \E t \in Threads, draw \in RandomDraws \ MistakeDraws("Hard") :
          get_move(t, draw)
    \/ \E t \in Threads : best_move(t)
    \/ \E t \in Threads : ai_move_thread(t)

SpecHard == HardInit /\ [][HardNext]_vars

\* The statistics on their own: direct calls of Statistics.record_win, with
\* every outcome of a round, and of Statistics.reset.
StatisticsInit == GameInit

StatisticsNext ==
    \/ \E w \in {None, "X", "O"} : call_record_win(w)
    \/ statistics_reset

SpecStatistics == StatisticsInit /\ [][StatisticsNext]_vars

\* The engine's functions that place the O themselves, on their own: one
\* call of AIPlayer.make_move (any tier), of _make_random_move, of
\* _make_strategic_move, of _try_win or of _try_block, with no other thread
\* running, on any board the two players can have filled in turns.
Placers ==
    {"AIPlayer.make_move", "_make_random_move", "_make_strategic_move",
     "_try_win", "_try_block"}

MakeMoveInit ==
    /\ in_menu = FALSE
    /\ main = IdleMain("events")
    /\ difficulty \in Difficulties
    /\ ai_thinking = FALSE
    /\ board \in EngineBoards
    /\ game_over = FALSE
    /\ winner = None
    /\ winning_line = NoLine
    /\ statistics = NewStatistics
       \* only make_move reads the tier: the others are entered under one tier
    /\ \E entry \in Placers :
          /\ entry = "AIPlayer.make_move" \/ difficulty = "Medium"
          /\ th = [t \in Threads |->
                     IF t = 1 THEN CallRecord(entry, difficulty) ELSE IdleThread]
    /\ origin = board
    /\ restarts = 0
    /\ recorded = 0
    /\ clicks = 0
    /\ starts = 0

MakeMoveNext ==
    \/ EngineNext
    \/ \E t \in Threads : ai_make_move(t)
    \/ \E t \in Threads : _make_random_move(t)
    \/ \E t \in Threads : _make_strategic_move(t)
    \/ \E t \in Threads : _try_win(t)
    \/ \E t \in Threads : _try_block(t)

SpecMakeMove == MakeMoveInit /\ [][MakeMoveNext]_vars

\* ------------------------------------------------------------- claims

\* the eight lines of the board, in the scan order of check_winner: rows
\* top to bottom, columns left to right, main diagonal, anti-diagonal
Lines ==
    << <<<<0, 0>>, <<0, 1>>, <<0, 2>>>>,
       <<<<1, 0>>, <<1, 1>>, <<1, 2>>>>,
       <<<<2, 0>>, <<2, 1>>, <<2, 2>>>>,
       <<<<0, 0>>, <<1, 0>>, <<2, 0>>>>,
       <<<<0, 1>>, <<1, 1>>, <<2, 1>>>>,
       <<<<0, 2>>, <<1, 2>>, <<2, 2>>>>,
       <<<<0, 0>>, <<1, 1>>, <<2, 2>>>>,
       <<<<0, 2>>, <<1, 1>>, <<2, 0>>>> >>

\* line number i of board b holds three marks s
LineOf(b, i, s) == \A k \in 1 .. 3 : b[Lines[i][k][1]][Lines[i][k][2]] = s

\* symbol s has completed a row, a column or a diagonal of b
HasLine(b, s) == \E i \in 1 .. 8 : LineOf(b, i, s)

\* the empty cells of b
EmptyCells(b) == {m \in Rows \X Cols : b[m[1]][m[2]] = None}

\* X wins from b whatever O plays, `mover` being the side to move
RECURSIVE XCanForceWin(_, _)
XCanForceWin(b, mover) ==
    IF HasLine(b, "X") THEN TRUE
    ELSE IF HasLine(b, "O") \/ EmptyCells(b) = {} THEN FALSE
    ELSE IF mover = "X"
    THEN \E m \in EmptyCells(b) : XCanForceWin(Place(b, m[1], m[2], "X"), "O")
    ELSE \A m \in EmptyCells(b) : XCanForceWin(Place(b, m[1], m[2], "O"), "X")

\* C1: in a round against the Impossible tier, started from the empty board
\* with either side moving first, X never completes a row, column or diagonal
C1_ImpossibleNeverLoses ==
    difficulty = "Impossible" => (~HasLine(board, "X") /\ winner # "X")

\* C1 witness: such a round has been played to its end, the engine having
\* answered every X move
C1_Witness ==
    /\ difficulty = "Impossible"
    /\ game_over
    /\ Count(board, "O") >= 4
    /\ Count(board, None) = 0

\* C2 as stated: from every mid-round position with O to move, Impossible
\* play keeps X from completing a line
C2_Original ==
    difficulty = "Impossible" => ~HasLine(board, "X")

\* C2 amended: from every mid-round position with O to move in which X has
\* no forced win, Impossible play keeps X from completing a line
C2_NeverLosesUnlessLost ==
    (difficulty = "Impossible" /\ (HasLine(board, "X") \/ winner = "X"))
        => XCanForceWin(origin, "O")

\* C2 witness: the engine took over after O moves it did not choose (O is
\* not in the center although it was free) and the round was played out
C2_Witness ==
    /\ difficulty = "Impossible"
    /\ game_over
    /\ Count(origin, "O") >= 1
    /\ origin[1][1] = "X"
    /\ Count(board, "O") >= Count(origin, "O") + 2
    /\ ~XCanForceWin(origin, "O")

\* the first index of the largest element of a non-empty sequence of numbers
FirstArgMax(scores) ==
    CHOOSE i \in 1 .. Len(scores) :
        /\ \A j \in 1 .. Len(scores) : scores[j] <= scores[i]
        /\ \A j \in 1 .. (i - 1) : scores[j] < scores[i]

\* C3: when _get_best_move has returned, at each of the depths 1, 3, 6, 9,
\* the score it computed for every candidate cell is the score of the same
\* depth-bounded search without the 'beta <= alpha' cutoff, and the move it
\* returned is the first cell of the best such score
C3_PruningKeepsResults ==
    \A t \in Threads :
        (th[t].pc = "returned" /\ th[t].entry = "_get_best_move") =>
            LET self == AIPlayer(th[t].difficulty)
                cells == _get_empty_cells(board)
                plain == [i \in 1 .. Len(cells) |->
                            minimax_search(self, Place(board, cells[i][1], cells[i][2], "O"),
                                           0, FALSE, -inf, inf, FALSE)]
                pruned == [i \in 1 .. Len(cells) |->
                            candidate_score(self, board, cells[i][1], cells[i][2])]
            IN /\ pruned = plain
               /\ th[t].move = cells[FirstArgMax(plain)]

\* C3 witness: the full-depth search has returned a move for a board with
\* at least seven empty cells, where the cutoff skips most of the tree
C3_Witness ==
    \E t \in Threads :
        /\ th[t].pc = "returned" /\ th[t].entry = "_get_best_move"
        /\ th[t].difficulty = "Impossible"
        /\ th[t].move # NoMove
        /\ Count(board, None) >= 7

\* the symbol of the first completed line of b in scan order, None if no
\* line holds three identical marks
FirstLineWinner(b) ==
    LET done == {i \in 1 .. 8 : \E v \in Symbols : LineOf(b, i, v)}
    IN IF done = {} THEN None
       ELSE LET first == CHOOSE i \in done : \A j \in done : i <= j
            IN b[Lines[first][1][1]][Lines[first][1][2]]

\* the empty cells of b at which placing v makes v the winner
WinCells(b, v) ==
    {m \in EmptyCells(b) : FirstLineWinner(Place(b, m[1], m[2], v)) = v}

\* the row-major first cell of a non-empty set of cells
FirstCell(cells) ==
    CHOOSE m \in cells :
        \A n \in cells : m[1] < n[1] \/ (m[1] = n[1] /\ m[2] <= n[2])

\* thread t has returned from a call of `entry`
Returned(t, entry) == th[t].pc = "returned" /\ th[t].entry = entry

\* C4: when get_move returns, at any tier and whatever the random draws,
\* the caller's board is cell for cell what it was when the call began
C4_BoardRestoredOnReturn ==
    \A t \in Threads : Returned(t, "get_move") => board = origin

\* C4 witness: a Medium get_move has returned a cell found by its second
\* scan, after placing and removing marks on the board
C4_Witness ==
    \E t \in Threads :
        /\ Returned(t, "get_move")
        /\ th[t].difficulty = "Medium" /\ ~th[t].mistake
        /\ WinCells(origin, "O") = {}
        /\ th[t].move \in WinCells(origin, "X")
        /\ th[t].move # FirstCell(EmptyCells(origin))

\* C5: at no step of a get_move call is a cell of the caller's board written
C5_BoardNeverWritten ==
    (\E t \in Threads : th[t].entry = "get_move") => board = origin

\* C6: get_move returns None exactly when the board has no empty cell, and
\* otherwise a cell (row, col) within the board that is empty on the input
C6_LegalMoveOrNone ==
    \A t \in Threads : Returned(t, "get_move") =>
        /\ (th[t].move = NoMove) <=> (EmptyCells(origin) = {})
        /\ th[t].move # NoMove => th[t].move \in EmptyCells(origin)

\* C6 witness: Easy get_move, its mistake branch not taken, has returned an
\* edge cell of a board whose center is taken
C6_Witness ==
    \E t \in Threads :
        /\ Returned(t, "get_move")
        /\ th[t].difficulty = "Easy" /\ ~th[t].mistake
        /\ origin[1][1] # None
        /\ th[t].move \in {<<0, 1>>, <<1, 0>>, <<1, 2>>, <<2, 1>>}

\* C7: on a board without a completed line where some empty cell completes
\* an O line, get_move of Medium, Hard and Impossible, its mistake branch not
\* taken, returns a cell that completes an O line
C7_ImmediateWinTaken ==
    \A t \in Threads :
        ( /\ Returned(t, "get_move")
          /\ th[t].difficulty \in {"Medium", "Hard", "Impossible"}
          /\ ~th[t].mistake
          /\ ~HasLine(origin, "X") /\ ~HasLine(origin, "O")
          /\ \E m \in EmptyCells(origin) : HasLine(Place(origin, m[1], m[2], "O"), "O") )
        => HasLine(Place(origin, th[t].move[1], th[t].move[2], "O"), "O")

\* C7 witness: the search tier took a win although an earlier cell in
\* row-major order was free and X threatened a line
C7_Witness ==
    \E t \in Threads :
        /\ Returned(t, "get_move")
        /\ th[t].difficulty = "Hard" /\ ~th[t].mistake
        /\ ~HasLine(origin, "X") /\ ~HasLine(origin, "O")
        /\ WinCells(origin, "X") # {}
        /\ th[t].move \in WinCells(origin, "O")
        /\ th[t].move # FirstCell(EmptyCells(origin))

\* C8: on a board where no empty cell wins for O and some empty cell would
\* win for X, get_move of Medium, its mistake branch not taken, returns an
\* empty cell at which X would have completed a line
C8_MediumBlocks ==
    \A t \in Threads :
        ( /\ Returned(t, "get_move")
          /\ th[t].difficulty = "Medium"
          /\ ~th[t].mistake
          /\ WinCells(origin, "O") = {}
          /\ WinCells(origin, "X") # {} )
        => /\ th[t].move \in EmptyCells(origin)
           /\ HasLine(Place(origin, th[t].move[1], th[t].move[2], "X"), "X")

\* C8 witness: Medium has blocked on a board of a running round, away from
\* the center and the first empty cell
C8_Witness ==
    \E t \in Threads :
        /\ Returned(t, "get_move")
        /\ th[t].difficulty = "Medium" /\ ~th[t].mistake
        /\ ~HasLine(origin, "X") /\ ~HasLine(origin, "O")
        /\ Count(origin, "X") = Count(origin, "O") + 1
        /\ WinCells(origin, "O") = {}
        /\ origin[1][1] = None
        /\ th[t].move \in WinCells(origin, "X")
        /\ th[t].move \notin {<<1, 1>>, FirstCell(EmptyCells(origin))}

\* C9: _try_win_move (S = "O") and _try_block_move (S = "X") return None
\* exactly when no empty cell makes S the winner, and otherwise the
\* row-major first of the empty cells that do
C9_WinningMoveFinder ==
    \A t \in Threads :
        \A fn \in {"_try_win_move", "_try_block_move"} :
            Returned(t, fn) =>
                LET cells == WinCells(origin, ScanSymbol(fn))
                IN /\ (th[t].move = NoMove) <=> (cells = {})
                   /\ cells # {} => th[t].move = FirstCell(cells)

\* C9 witness: _try_block_move has returned the first of several cells that
\* win for X, after passing over empty cells that do not
C9_Witness ==
    \E t \in Threads :
        /\ Returned(t, "_try_block_move")
        /\ Cardinality(WinCells(origin, "X")) >= 2
        /\ th[t].move = FirstCell(WinCells(origin, "X"))
        /\ th[t].move # FirstCell(EmptyCells(origin))
        /\ ~HasLine(origin, "X") /\ ~HasLine(origin, "O")

\* C10: on every 3x3 board AIPlayer._check_winner and
\* GameState.check_winner return the same value: the symbol of the first
\* completed line in scan order, None exactly when no line is complete
C10_WinnerDetection ==
    /\ _check_winner(board) = FirstLineWinner(board)
    /\ check_winner(board) = FirstLineWinner(board)
    /\ (FirstLineWinner(board) = None) <=> (~HasLine(board, "X") /\ ~HasLine(board, "O"))
    /\ \A t \in Threads :
          Returned(t, "_check_winner") => th[t].result = FirstLineWinner(board)
    /\ winner # None => winner = FirstLineWinner(board)

\* C10 witness: both checks have returned O on a board where X holds a
\* complete line later in the scan order
C10_Witness ==
    /\ \E t \in Threads : Returned(t, "_check_winner") /\ th[t].result = "O"
    /\ winner = "O"
    /\ HasLine(board, "X")
    /\ winning_line # NoLine

\* cell m comes before cell n in row-major order
RowMajorBefore(m, n) == m[1] < n[1] \/ (m[1] = n[1] /\ m[2] < n[2])

\* the sequence s lists exactly the empty cells of b, each once, in
\* row-major order
ListsEmptyCells(s, b) ==
    /\ {s[i] : i \in 1 .. Len(s)} = EmptyCells(b)
    /\ \A i, j \in 1 .. Len(s) : i < j => RowMajorBefore(s[i], s[j])

\* C11: on every 3x3 board is_board_full is true exactly when
\* get_empty_cells returns the empty list; get_empty_cells lists the empty
\* coordinates, each once, in row-major order; and _is_board_full and
\* _get_empty_cells of AIPlayer return what the GameState methods return
C11_FullnessAndEmptyCellsAgree ==
    /\ is_board_full(board) <=> (get_empty_cells(board) = <<>>)
    /\ \A t \in Threads :
          /\ Returned(t, "is_board_full") =>
                th[t].result = (EmptyCells(board) = {})
          /\ Returned(t, "get_empty_cells") =>
                ListsEmptyCells(th[t].result, board)
          /\ Returned(t, "_is_board_full") =>
                th[t].result = is_board_full(board)
          /\ Returned(t, "_get_empty_cells") =>
                /\ th[t].result = get_empty_cells(board)
                /\ ListsEmptyCells(th[t].result, board)

\* C11 witness: get_empty_cells has returned several cells of a board whose
\* first row is taken, from more than one row and more than one column
C11_Witness ==
    \E t \in Threads :
        /\ Returned(t, "get_empty_cells")
        /\ Len(th[t].result) >= 3
        /\ th[t].result[1][1] = 1 /\ th[t].result[1][2] = 1
        /\ \E i \in 1 .. Len(th[t].result) : th[t].result[i] = <<2, 0>>
        /\ ~is_board_full(board)

\* C12 as stated: on the empty board with O to move, get_move of the
\* Impossible tier returns the center cell (1, 1)
C12_Original ==
    \A t \in Threads :
        (Returned(t, "get_move") /\ th[t].difficulty = "Impossible"
            /\ board = EmptyBoard)
        => th[t].move = <<1, 1>>

\* C12 amended: on the empty board with O to move, get_move of the
\* Impossible tier returns the corner cell (0, 0): the nine opening cells all
\* score 0 and the first of them in row-major order is kept
C12_EmptyBoardOpening ==
    \A t \in Threads :
        (Returned(t, "get_move") /\ th[t].difficulty = "Impossible"
            /\ board = EmptyBoard)
        => /\ th[t].move = <<0, 0>>
           /\ \A m \in Rows \X Cols :
                 candidate_score(AIPlayer("Impossible"), board, m[1], m[2]) = 0

\* C12 witness: the Impossible tier was chosen in the menu, the AI moves
\* first and its get_move has returned on the empty board
C12_Witness ==
    \E t \in Threads :
        /\ Returned(t, "get_move")
        /\ th[t].difficulty = "Impossible" /\ ~th[t].mistake
        /\ difficulty = "Impossible" /\ ai_thinking /\ ~in_menu
        /\ board = EmptyBoard
        /\ th[t].move # NoMove

\* the AI move threads that have started and not finished
InFlight == {t \in Threads : th[t].pc # "idle"}

\* C13: in every state the application reaches, whatever the order of the
\* difficulty selection, the clicks, the AI moves and the restart and menu
\* events, the board holds X and O marks with count(X) - count(O) in {0, 1}
C13_MarkCountInvariant ==
    /\ board \in AllBoards
    /\ Count(board, "X") - Count(board, "O") \in {0, 1}

\* C14: at most one AI move thread is in flight, and ai_thinking is True as
\* long as a started thread has not finished
C14_NoOverlappingCalls ==
    /\ Cardinality(InFlight) <= 1
    /\ InFlight # {} => ai_thinking

\* C15: make_move(row, col) returns False and leaves the board as it was when
\* row or col is outside 0..2 or the cell is not empty; otherwise it returns
\* True and changes that one cell from empty to X; game_over, winner and
\* winning_line are left as they were in both cases
C15_MakeMoveRejectsInvalid ==
    \A t \in Threads : Returned(t, "make_move") =>
        LET row == th[t].r
            col == th[t].c
            valid == row \in Rows /\ col \in Cols /\ origin[row][col] = None
        IN /\ th[t].result = valid
           /\ ~valid => board = origin
           /\ valid =>
                 /\ board[row][col] = "X"
                 /\ \A m \in Rows \X Cols :
                       m # <<row, col>> => board[m[1]][m[2]] = origin[m[1]][m[2]]
           /\ game_over = FALSE /\ winner = None /\ winning_line = NoLine

\* C15 witness: make_move has returned False for a cell of the board that
\* holds an O, on a board that has empty cells
C15_Witness ==
    \E t \in Threads :
        /\ Returned(t, "make_move")
        /\ th[t].result = FALSE
        /\ th[t].r \in Rows /\ th[t].c \in Cols
        /\ origin[th[t].r][th[t].c] = "O"
        /\ board = origin
        /\ EmptyCells(board) # {}

\* C16: every call of _minimax returns (the calls _get_best_move makes in
\* its loop over the empty cells are the minimizing calls at depth 0), and
\* the value of depth never goes beyond min(max_depth, number of empty cells)
\* above the depth of the first call: each recursive call adds one to depth
\* and fills one empty cell. The score returned with the depth reached is the
\* score of _minimax (compared where the search is at most six cells or
\* three plies deep)
C16_SearchTerminates ==
    \A t \in Threads :
        Returned(t, "_minimax") =>
            LET self == AIPlayer(th[t].difficulty)
                cells == EmptyCells(board)
            IN /\ th[t].result.deepest >= th[t].depth
               /\ th[t].result.deepest
                     <= Max(th[t].depth,
                            Min(self.max_depth, th[t].depth + Cardinality(cells)))
               /\ (Cardinality(cells) <= 6 \/ self.max_depth <= 3) =>
                     th[t].result.score =
                       _minimax(self, board, th[t].depth, th[t].is_maximizing, -inf, inf)

\* C16 witness: a full-depth search from the empty board has returned after
\* reaching depth 9, the last empty cell
C16_Witness ==
    \E t \in Threads :
        /\ Returned(t, "_minimax")
        /\ th[t].difficulty = "Impossible"
        /\ board = EmptyBoard
        /\ th[t].depth = 0
        /\ th[t].result.deepest = 9

\* C19: _minimax returns 10 - depth when O holds a line, depth - 10 when X
\* holds a line, 0 on a full board without a line and 0 at depth >= max_depth
\* on any other board, in this order of precedence (a line at the depth limit
\* is scored as a win or a loss); on a board where both hold a line, which no
\* search from a position without a line visits, the first line in scan order
\* decides; and every value returned is an integer in -10..10
C19_LeafScoringAndRange ==
    \A t \in Threads :
        Returned(t, "_minimax") =>
            LET self == AIPlayer(th[t].difficulty)
                depth == th[t].depth
                score == th[t].result.score
                o_line == HasLine(board, "O")
                x_line == HasLine(board, "X")
            IN /\ (o_line /\ ~x_line) => score = 10 - depth
               /\ (x_line /\ ~o_line) => score = depth - 10
               /\ (o_line /\ x_line) =>
                     score = IF FirstLineWinner(board) = "O"
                             THEN 10 - depth ELSE depth - 10
               /\ (~o_line /\ ~x_line /\ EmptyCells(board) = {}) => score = 0
               /\ (~o_line /\ ~x_line /\ depth >= self.max_depth) => score = 0
               /\ score \in (0 - 10) .. 10

\* C19 witness: called at the depth limit of Medium on a board that is not
\* full and holds a line of X, _minimax has returned 3 - 10
C19_Witness ==
    \E t \in Threads :
        /\ Returned(t, "_minimax")
        /\ th[t].difficulty = "Medium" /\ th[t].depth = 3
        /\ HasLine(board, "X") /\ ~HasLine(board, "O")
        /\ EmptyCells(board) # {}
        /\ th[t].result.score = 0 - 7

\* thread t has returned from get_move of a search tier with the move of
\* _get_best_move, on a board without a completed line
SearchMoveReturned(t) ==
    /\ Returned(t, "get_move")
    /\ th[t].difficulty \in {"Hard", "Impossible"}
    /\ ~th[t].mistake
    /\ ~HasLine(board, "X") /\ ~HasLine(board, "O")

\* C17 as stated: in a round against Hard or Impossible the move of
\* _get_best_move completes an O line whenever some empty cell does, and
\* otherwise, whenever some empty cell would complete an X line, it is one of
\* the cells at which X would complete a line
C17_Original ==
    \A t \in Threads : SearchMoveReturned(t) =>
        /\ WinCells(board, "O") # {} => th[t].move \in WinCells(board, "O")
        /\ (WinCells(board, "O") = {} /\ WinCells(board, "X") # {})
              => th[t].move \in WinCells(board, "X")

\* C17 amended: the move of _get_best_move completes an O line whenever some
\* empty cell does; otherwise, when exactly one empty cell would complete an
\* X line, it is that cell; and when two or more would, it is the first empty
\* cell in row-major order, whether or not X completes a line there
C17_WinAndSingleBlock ==
    \A t \in Threads : SearchMoveReturned(t) =>
        /\ WinCells(board, "O") # {} => th[t].move \in WinCells(board, "O")
        /\ (WinCells(board, "O") = {} /\ Cardinality(WinCells(board, "X")) = 1)
              => th[t].move \in WinCells(board, "X")
        /\ (WinCells(board, "O") = {} /\ Cardinality(WinCells(board, "X")) >= 2)
              => th[t].move = FirstCell(EmptyCells(board))

\* C17 witness: in a round against Hard the search has returned the one cell
\* at which X would complete a line, past an earlier empty cell
C17_Witness ==
    \E t \in Threads :
        /\ SearchMoveReturned(t)
        /\ th[t].difficulty = "Hard"
        /\ WinCells(board, "O") = {}
        /\ Cardinality(WinCells(board, "X")) = 1
        /\ th[t].move \in WinCells(board, "X")
        /\ th[t].move # FirstCell(EmptyCells(board))

\* the empty cells of b, each paired with the score _get_best_move computes
\* for it
ScoredCells(self, b) ==
    {<<m, candidate_score(self, b, m[1], m[2])>> : m \in EmptyCells(b)}

\* the cells of a set of <<cell, score>> pairs that have the largest score
TopCells(scored) ==
    {p[1] : p \in {q \in scored : \A o \in scored : o[2] <= q[2]}}

\* C18: _get_best_move returns None exactly when the board has no empty
\* cell, and otherwise the row-major first of the empty cells whose minimax
\* score is the largest over all empty cells
C18_CommittedTieBreak ==
    \A t \in Threads : Returned(t, "_get_best_move") =>
        /\ (th[t].move = NoMove) <=> (EmptyCells(board) = {})
        /\ EmptyCells(board) # {} =>
              th[t].move =
                FirstCell(TopCells(ScoredCells(AIPlayer(th[t].difficulty), board)))

\* C18 witness: the full-depth search has returned a cell that is not the
\* first empty cell although a later empty cell has the same, largest score
C18_Witness ==
    \E t \in Threads :
        /\ Returned(t, "_get_best_move")
        /\ th[t].difficulty = "Impossible"
        /\ ~HasLine(board, "X") /\ ~HasLine(board, "O")
        /\ Cardinality(EmptyCells(board)) >= 4
        /\ th[t].move # NoMove
        /\ th[t].move # FirstCell(EmptyCells(board))
        /\ LET top == TopCells(ScoredCells(AIPlayer("Impossible"), board))
           IN /\ Cardinality(top) >= 2
              /\ th[t].move = FirstCell(top)

\* the other symbol
Other(v) == IF v = "O" THEN "X" ELSE "O"

\* symbol v completes a line within n plies from b whatever the other side
\* plays, `mover` being the side to move (never within a negative number)
RECURSIVE WinsWithin(_, _, _, _)
WinsWithin(v, b, mover, n) ==
    IF n < 0 THEN FALSE
    ELSE IF HasLine(b, v) THEN TRUE
    ELSE IF HasLine(b, Other(v)) \/ n = 0 \/ EmptyCells(b) = {} THEN FALSE
    ELSE IF mover = v
    THEN \E m \in EmptyCells(b) :
            WinsWithin(v, Place(b, m[1], m[2], mover), Other(mover), n - 1)
    ELSE \A m \in EmptyCells(b) :
            WinsWithin(v, Place(b, m[1], m[2], mover), Other(mover), n - 1)

\* the least number of plies within which v forces a line from b with X to
\* move, BOARD_ROWS * BOARD_COLS if it cannot force one
PliesToWin(v, b) ==
    LET within == {n \in 0 .. (BOARD_ROWS * BOARD_COLS - 1) : WinsWithin(v, b, "X", n)}
    IN IF within = {} THEN BOARD_ROWS * BOARD_COLS
       ELSE CHOOSE n \in within : \A k \in within : n <= k

\* b after O has played cell m
AfterO(b, m) == Place(b, m[1], m[2], "O")

\* C20: the move get_move of Impossible returns for a position with O to
\* move forces an O line in as few plies as any move does, if a move forces
\* one at all; and if X forces a line after every O move, X needs at least as
\* many plies after the returned move as after any other
C20_FasterWinsSlowerLosses ==
    \A t \in Threads :
        (Returned(t, "get_move") /\ th[t].difficulty = "Impossible"
            /\ th[t].move # NoMove) =>
            LET after == AfterO(board, th[t].move)
                win == PliesToWin("O", after)
                loss == PliesToWin("X", after)
            IN /\ \A m \in EmptyCells(board) :
                     ~WinsWithin("O", AfterO(board, m), "X", win - 1)
               /\ loss < BOARD_ROWS * BOARD_COLS =>
                     \A m \in EmptyCells(board) :
                         WinsWithin("X", AfterO(board, m), "X", loss)

\* C20 witness: the engine has returned a move that forces an O line two
\* plies later, on a board where no move completes a line at once and an
\* earlier empty cell forces a line only four plies later
C20_Witness ==
    \E t \in Threads :
        /\ Returned(t, "get_move") /\ th[t].difficulty = "Impossible"
        /\ th[t].move # NoMove
        /\ WinCells(board, "O") = {}
        /\ Cardinality(EmptyCells(board)) >= 5
        /\ th[t].move # FirstCell(EmptyCells(board))
        /\ PliesToWin("O", AfterO(board, th[t].move)) = 2
        /\ \E m \in EmptyCells(board) :
              /\ RowMajorBefore(m, th[t].move)
              /\ PliesToWin("O", AfterO(board, m)) = 4

\* the four corner cells
Corners == {<<0, 0>>, <<0, 2>>, <<2, 0>>, <<2, 2>>}

\* C21: on every board _get_strategic_move returns (1, 1) if the center is
\* empty; otherwise an empty corner if some corner is empty; otherwise an
\* empty cell; and None exactly when the board is full
C21_PositionalHeuristic ==
    \A t \in Threads : Returned(t, "_get_strategic_move") =>
        LET move == th[t].move
            empty_corners == Corners \cap EmptyCells(board)
        IN /\ board[1][1] = None => move = <<1, 1>>
           /\ (board[1][1] # None /\ empty_corners # {}) => move \in empty_corners
           /\ (board[1][1] # None /\ empty_corners = {} /\ EmptyCells(board) # {})
                 => move \in EmptyCells(board)
           /\ (move = NoMove) <=> (EmptyCells(board) = {})
           /\ board = origin

\* C21 witness: with the center taken and three edge cells empty,
\* _get_strategic_move has returned the one empty corner, which is not the
\* first empty cell
C21_Witness ==
    \E t \in Threads :
        /\ Returned(t, "_get_strategic_move")
        /\ board[1][1] # None
        /\ Corners \cap EmptyCells(board) = {th[t].move}
        /\ Cardinality(EmptyCells(board)) = 4
        /\ th[t].move # FirstCell(EmptyCells(board))

\* C22: at the Impossible tier get_move never takes its random branch, and
\* two calls of get_move on equal boards return equal moves whatever the
\* random draws of each
C22_ImpossibleDeterministic ==
    \A t, u \in Threads :
        th[t].difficulty = "Impossible" =>
            /\ ~th[t].mistake /\ th[t].pc # "random"
            /\ (Returned(t, "get_move") /\ Returned(u, "get_move")
                    /\ th[u].difficulty = "Impossible")
                  => th[t].move = th[u].move

\* C22 witness: two Impossible calls on one board with at least two empty
\* cells have both returned, and the move is not the first empty cell
C22_Witness ==
    \E t, u \in Threads :
        /\ t # u
        /\ Returned(t, "get_move") /\ Returned(u, "get_move")
        /\ th[t].difficulty = "Impossible" /\ th[u].difficulty = "Impossible"
        /\ Cardinality(EmptyCells(board)) >= 2
        /\ th[t].move = th[u].move
        /\ th[t].move # FirstCell(EmptyCells(board))

\* C23: between two resets (a step that is not the one of GameState.reset
\* that replaces the board, in a restart or menu event) a
\* cell of the board that holds X or O keeps its value, whatever the order
\* of the clicks, the events and the steps of the AI move threads
C23_MarksNeverOverwritten ==
    [][restarts' = restarts =>
          \A m \in Rows \X Cols :
              board[m[1]][m[2]] # None => board'[m[1]][m[2]] = board[m[1]][m[2]]]_vars

\* the main thread is inside GameState.reset
Resetting == main.pc \in {"30", "32", "33", "34"}

\* neither a handler of the main thread nor an AI move thread is running
Quiet ==
    /\ main.pc \in {"menu", "wait", "events"}
    /\ \A t \in Threads : th[t].pc = "idle"

\* C24: between two resets Statistics.record_win is called at most once and
\* only in a round that has reached game_over, and it has been called once
\* the handler or thread that ended the round has finished; total_games has
\* grown by one for each call
C24_RoundRecordedOnce ==
    /\ recorded <= 1
    /\ recorded = 1 => game_over
    /\ (game_over /\ Quiet) => recorded = 1
    /\ statistics.total_games <= restarts + 1

\* C25: whenever game_over is True (and no reset is in progress) the board
\* holds a completed line of the symbol in winner, or is full with winner
\* None; and from then until the next reset (a restart or menu event) no
\* cell of the board, nor winner, nor game_over changes
C25_FinishedRoundFrozen ==
    /\ []((game_over /\ ~Resetting) =>
             \/ (winner # None /\ HasLine(board, winner))
             \/ (winner = None /\ EmptyCells(board) = {}))
    /\ [][(game_over /\ ~Resetting /\ ~Resetting') =>
             (board' = board /\ winner' = winner /\ game_over' = game_over)]_vars

\* the marks the two sides have played: the board without the mark a scan
\* of _try_win_move or _try_block_move has placed and not yet removed
PlayedBoard ==
    IF \E t \in Threads : th[t].pc \in {"check", "undo"}
    THEN LET t == CHOOSE u \in Threads : th[u].pc \in {"check", "undo"}
         IN Place(board, th[t].r, th[t].c, None)
    ELSE board

\* sys.exit() has ended the process
Exited == main.pc = "exit"

\* the handler of an accepted click has placed its X (line 50) and has not
\* returned, and the X does not end the round: it completes no line and
\* leaves a cell empty
ClickPending ==
    /\ main.pc \in {"128", "128w", "128s", "129", "133"}
    /\ check_winner(board) = None
    /\ EmptyCells(board) # {}

\* a move of the AI is due: after a click that does not end the round, from
\* the X on the board to the return of the handler, and from the call of
\* make_ai_move that starts a thread (of that handler, or of
\* select_difficulty for the opening move) until ai_thinking is False again
AwaitingAnswer == ClickPending \/ ai_thinking

\* no move of the AI is due and none is missing: every thread started has
\* placed its O and has ended, and the main thread is in no handler
Answered ==
    /\ ~AwaitingAnswer
    /\ Quiet
    /\ Count(PlayedBoard, "X") = clicks
    /\ Count(PlayedBoard, "O") = starts

\* What holds of a round in every state and step of the running process,
\* whatever the events. The marks played hold one X for each accepted click and one O for each thread
\* started, less the one of a thread that is still thinking, and no thread
\* is thinking while the handler of a click runs. That handler, when it
\* finds the round not ended, starts one thread and sets ai_thinking before
\* it returns, and places no further X. An X is placed only while no move of
\* the AI is due. While one is due the marks played change in one way only,
\* by one O on a cell that was empty, placed while ai_thinking is True and
\* leaving it True.
C26_OneAnswerPerClick ==
    /\ [](~Exited =>
            /\ Count(PlayedBoard, "X") = clicks
            /\ Count(PlayedBoard, "O") \in
                  IF ai_thinking THEN {starts - 1, starts} ELSE {starts}
            /\ ClickPending => ~ai_thinking)
    /\ [][(main.pc = "133" /\ main'.pc # "133") =>
             /\ starts' = starts + 1
             /\ ai_thinking'
             /\ clicks' = clicks
             /\ \E t \in Threads : th[t].pc = "idle" /\ th'[t].pc # "idle"]_vars
    /\ [][starts' \in {starts, starts + 1}]_vars
    /\ [][clicks' # clicks => ~AwaitingAnswer]_vars
    /\ [][(AwaitingAnswer /\ ~Exited' /\ PlayedBoard' # PlayedBoard) =>
             /\ ai_thinking /\ ai_thinking'
             /\ \E m \in EmptyCells(PlayedBoard) :
                   PlayedBoard' = Place(PlayedBoard, m[1], m[2], "O")]_vars

\* C26 as the specification states it: in a round without restart and menu
\* events, with the threads scheduled fairly, every accepted click that does
\* not end the round is answered: from the moment its X is on the board a
\* move of the AI is due until the thread that the handler starts has placed
\* exactly one O on a cell that was empty and ai_thinking has returned to
\* False, no further X being placed before. The same holds of the AI's
\* opening move. The QUIT event is not excluded.
C26_AnswersWhateverTheEvents ==
    /\ AwaitingAnswer ~> Answered
    /\ C26_OneAnswerPerClick

\* C26, amended: in a round without restart and menu events, with the
\* threads scheduled fairly, every accepted click that does not end the
\* round is answered unless the QUIT event ends the process first: from the
\* moment its X is on the board a move of the AI is due until the thread
\* that the handler starts has placed exactly one O on a cell that was
\* empty and ai_thinking has returned to False, no further X being placed
\* before. The same holds of the AI's opening move.
C26_AIAlwaysAnswers ==
    /\ AwaitingAnswer ~> (Answered \/ Exited)
    /\ C26_OneAnswerPerClick

\* C26 witness: in a round against Medium the player's second click did not
\* end the round and has been answered: the thread started after it has
\* placed the second O and has ended, and the process is running
C26_Witness ==
    /\ difficulty = "Medium"
    /\ Answered
    /\ ~game_over
    /\ clicks = 2 /\ starts = 2
    /\ Count(board, "X") = 2 /\ Count(board, "O") = 2

\* C27: in a round against the Hard tier (max_depth = 6) started from the
\* empty board, in which every O move is the move _get_best_move returns,
\* whichever side moves first and whatever X plays, X never completes a row,
\* column or diagonal
C27_HardNeverLoses ==
    difficulty = "Hard" =>
        /\ ~HasLine(board, "X")
        /\ winner # "X"
        /\ statistics.player_wins = 0

\* C27 witness: a round against Hard in which the AI moved first, on the
\* empty board that the six-ply search does not see to its end, has been
\* played until the board is full
C27_Witness ==
    /\ difficulty = "Hard"
    /\ game_over
    /\ Count(board, "O") = 5 /\ Count(board, "X") = 4
    /\ \A t \in Threads : th[t].pc = "idle"
====
